---------------------------- MODULE Spec2Model ----------------------------
(***************************************************************************)
(* AEGIS UAV command gateway (IvanNilash1206/Secure_Drone).                *)
(*                                                                         *)
(* Three components are modelled, each with its own specification:        *)
(*   SpecProxy   companion_comp/aegis_proxy.py: sender classification,     *)
(*               authorization gate, forwarding to the flight controller  *)
(*   SpecReplay  src/ai_layer/attack_detection/replay_detector.py          *)
(*   SpecCrypto  key manager, nonce manager, encryptor, decryptor and      *)
(*               crypto gate                                               *)
(* A specification leaves the variables of the other components at their  *)
(* initial values.                                                         *)
(***************************************************************************)
EXTENDS Integers, Sequences, FiniteSets, TLC

VARIABLES
    \* ---- AEGISProxy ----
    trusted_gcs_ip,        \* self.trusted_gcs_ip
    ai_enabled,            \* self.enable_security and self.ai_enabled
    stats,                 \* self.stats (the six scalar counters)
    fc_sent,               \* datagrams handed to send_socket.sendto without error
    sec_log,               \* "SECURITY EVENT - COMMAND BLOCKED" records logged
    proc,                  \* the datagram being processed (locals of run/process_message)
    \* ---- ReplayDetector ----
    seen_nonces,           \* self.seen_nonces
    nonce_queue,           \* self.nonce_queue
    last_valid_timestamp,  \* self.last_valid_timestamp
    command_history,       \* self.command_history
    rd_stats,              \* total_commands, detected_replays, ...
    rd_now,                \* time.time() as seen by the detector
    rd_last,               \* the last check_command call: arguments and ReplayMetrics
    accepted_at,           \* history: nonce -> ordinal of its last acceptance (0: never)
    accept_count,          \* history: frames accepted since construction/reset
    max_accepted,          \* history: largest timestamp accepted, ever and since the last reset
    \* ---- crypto layer ----
    now,                   \* time.time() as seen by the crypto layer, in seconds
    key_manager,           \* the global KeyManager instance (its fields, as a record)
    last_seen_counter,     \* decryptor.last_seen_counter
    enc_counter,           \* encryptor.nonce_mgr.counter
    emergency_mode,        \* CryptoGate.emergency_mode
    ticks,                 \* clock advances so far
    revocation_standing,   \* history: revoked, and no manual reset or operator rotation since
    cr_last,               \* the last crypto operation: arguments and outcome
    \* ---- NonceManager ----
    nm_counter,            \* self.counter
    nm_issued,             \* history: the nonces returned by next_nonce, in order
    \* ---- encryptor / decryptor on the wire format ----
    sealed,                \* the frames returned by encrypt_payload, with their plaintexts
    ae_last,               \* the last decrypt_payload call on wire bytes: arguments and outcome
    \* ---- RiskProportionalDecisionEngine ----
    de_in,                 \* the arguments of the decide call
    de_out,                \* the DecisionResult returned
    \* ---- InjectionDetector ----
    inj_state,             \* self.current_state and self.mission_active
    inj_stats,             \* the detector's statistics counters
    inj_last,              \* the last check_command call since __init__ or reset, and its InjectionMetrics
    \* ---- IntentInferenceEngine ----
    inf_engine,            \* models and feature names as loaded, inference_count, fallback_count
    inf_last,              \* the last infer call: argument, model outputs and outcome
    \* ---- DoSDetector._detect_dos ----
    fd_in,                 \* rate, burst score, sustained load and the attack threshold
    fd_out,                \* what _detect_dos returned for them
    \* ---- the detectors' queues and windows ----
    command_timestamps,    \* DoSDetector.command_timestamps
    dos_stats,             \* DoSDetector.total_commands, detected_dos_attacks
    intent_history,        \* IntentFirewall.command_history
    win_log,               \* history: elements dropped per queue, audit entries written for drops
    \* ---- ExplainableLogger and its three files ----
    explainable_logger,    \* session_id and command_counter of the logger object
    human_log,             \* decisions_explained.txt, a sequence of blocks
    decision_log,          \* decision_log.jsonl, a sequence of records
    audit_log,             \* audit_trail.jsonl, a sequence of records
    au_now,                \* int(time.time()) of the logger's host
    \* ---- RiskProportionalDecisionEngine as constructed ----
    decision_engine,       \* thresholds, weights and use_ml_intent of the engine object
    \* ---- process lives of the crypto layer ----
    enc_log,               \* the (key, nonce counter) pairs encrypt_payload has sealed with, by process life
    dec_log,               \* the frames decrypt_payload has accepted, by process life
    restarts,              \* times the process was started again
    \* ---- IntegratedSecurityPipeline at its entry ----
    pipeline               \* the pipeline's counters, its clock and what it returned last

proxyVars  == <<trusted_gcs_ip, ai_enabled, stats, fc_sent, sec_log, proc>>
replayVars == <<seen_nonces, nonce_queue, last_valid_timestamp, command_history,
                rd_stats, rd_now, rd_last, accepted_at, accept_count,
                max_accepted>>
cryptoVars == <<now, key_manager, last_seen_counter, enc_counter,
                emergency_mode, ticks, revocation_standing, cr_last>>
nonceVars == <<nm_counter, nm_issued>>
aeadVars == <<sealed, ae_last>>
decisionVars == <<de_in, de_out>>
injectionVars == <<inj_state, inj_stats, inj_last>>
inferenceVars == <<inf_engine, inf_last>>
floodVars == <<fd_in, fd_out>>
windowVars == <<command_timestamps, dos_stats, intent_history, win_log>>
auditVars == <<explainable_logger, human_log, decision_log, audit_log, au_now>>
engineVars == <<decision_engine>>
restartVars == <<enc_log, dec_log, restarts>>
pipelineVars == <<pipeline>>
vars == <<proxyVars, replayVars, cryptoVars, nonceVars, aeadVars, decisionVars,
         injectionVars,
         inferenceVars,
         floodVars,
         windowVars,
         auditVars,
         engineVars,
         restartVars,
         pipelineVars>>

\* What the steps of one component leave alone.
exceptProxy == <<replayVars, cryptoVars, nonceVars, aeadVars, decisionVars,
    injectionVars,
    inferenceVars,
    floodVars,
    windowVars,
    auditVars,
    engineVars,
    restartVars,
    pipelineVars>>
exceptReplay == <<proxyVars, cryptoVars, nonceVars, aeadVars, decisionVars,
    injectionVars,
    inferenceVars,
    floodVars,
    windowVars,
    auditVars,
    engineVars,
    restartVars,
    pipelineVars>>
exceptCrypto == <<proxyVars, replayVars, nonceVars, aeadVars, decisionVars,
    injectionVars,
    inferenceVars,
    floodVars,
    windowVars,
    auditVars,
    engineVars,
    restartVars,
    pipelineVars>>

(***************************************************************************)
(*                              AEGISProxy                                 *)
(***************************************************************************)

\* Bounds of the proxy model.
MaxDatagrams == 2      \* datagrams received in a run
MaxMsgs == 2           \* MAVLink frames parsed out of one datagram

\* Transport source addresses: the default trusted address and another host.
IPs == {"127.0.0.1", "10.0.0.66"}

\* authorize_message's BLOCKED_COMMANDS list.
BLOCKED_COMMANDS ==
    {"COMMAND_LONG", "COMMAND_INT", "SET_MODE", "MISSION_ITEM",
     "MISSION_ITEM_INT", "MISSION_COUNT", "MISSION_CLEAR_ALL",
     "MISSION_SET_CURRENT", "SET_POSITION_TARGET_LOCAL_NED",
     "SET_POSITION_TARGET_GLOBAL_INT", "SET_ATTITUDE_TARGET"}

\* Message types the MAVLink parser can hand to the proxy: the listed
\* commands, two further MISSION_* messages of the common dialect, and two
\* telemetry kinds.
MsgTypes ==
    BLOCKED_COMMANDS \cup
    {"MISSION_WRITE_PARTIAL_LIST", "MISSION_REQUEST_LIST", "HEARTBEAT", "GPS_RAW_INT"}

\* MAVLink source system ids carried in a frame (255: what a GCS uses).
SysIds == {1, 255}

\* What intent_firewall.analyze(msg) does for one message: returns a result
\* with allowed true or false, or raises.
IntentOutcomes == {"allowed", "not_allowed", "raises"}

\* The command kinds of the authorization matrix: COMMAND_LONG, COMMAND_INT,
\* SET_MODE, MISSION_*, SET_POSITION_TARGET_*, SET_ATTITUDE_TARGET.
MissionKinds == {"MISSION_ITEM", "MISSION_ITEM_INT", "MISSION_COUNT",
                 "MISSION_CLEAR_ALL", "MISSION_SET_CURRENT",
                 "MISSION_WRITE_PARTIAL_LIST", "MISSION_REQUEST_LIST"}
SetPositionTargetKinds == {"SET_POSITION_TARGET_LOCAL_NED",
                           "SET_POSITION_TARGET_GLOBAL_INT"}
CommandKinds ==
    {"COMMAND_LONG", "COMMAND_INT", "SET_MODE", "SET_ATTITUDE_TARGET"}
        \cup MissionKinds \cup SetPositionTargetKinds

\* intent: what intent_firewall.analyze did for the message, "not_run" when
\* process_message did not call it
NoMsg == [type |-> "none", sys_id |-> 0, verdict |-> "none", intent |-> "not_run"]

IdleProc ==
    [pc |-> "idle", src_ip |-> "none", sender_type |-> "none", n_msgs |-> 0,
     cur |-> NoMsg, all_forwarded |-> TRUE, n_approved |-> 0, events |-> 0,
     has_command |-> FALSE, sent |-> 0, attempts |-> 0, send_errors |-> 0]

\* CommandIntake.infer_source: the informational source label of a command
infer_source(sys_id, comp_id) ==
    IF sys_id = 255 THEN "gcs"
    ELSE IF 1 <= sys_id /\ sys_id <= 10 THEN "companion"
    ELSE IF sys_id = 1 /\ comp_id = 1 THEN "autopilot"
    ELSE "unknown"

ClassifySenderSticky(src_ip) ==
    IF src_ip = trusted_gcs_ip \/ stats.gcs_commands > 0 THEN "GCS" ELSE "UNTRUSTED"

\* AEGISProxy.classify_sender
classify_sender(src_ip) ==
    IF src_ip = trusted_gcs_ip THEN "GCS" ELSE "UNTRUSTED"

AuthorizeDefaultAllow(msg_type, sender_type) ==
    IF sender_type = "GCS" THEN <<TRUE, "none">>
    ELSE IF msg_type \in BLOCKED_COMMANDS THEN <<FALSE, "SECURITY">>
    ELSE <<TRUE, "none">>

\* AEGISProxy.authorize_message: (should_process, block_reason)
authorize_message(msg_type, sender_type) ==
    IF sender_type = "GCS" THEN <<TRUE, "none">>
    ELSE IF msg_type \in BLOCKED_COMMANDS THEN <<FALSE, "SECURITY">>
    ELSE <<FALSE, "none">>

\* A verdict that lets a message through whatever the intent analysis said.
VerdictIgnoresIntent(msg_type, sender_type, intent) ==
    IF ~authorize_message(msg_type, sender_type)[1]
    THEN (IF authorize_message(msg_type, sender_type)[2] # "none" THEN "block" ELSE "drop")
    ELSE "accept"

\* The verdict process_message reaches for one parsed message:
\*   "block"    not authorized, with a reason (security event)
\*   "drop"     not authorized, no reason (silent)
\*   "ai_block" authorized, intent analysis returned allowed = False
\*   "accept"   authorized and not blocked by the intent analysis (which
\*              is skipped when disabled or when it raises)
message_verdict(msg_type, sender_type, intent) ==
    LET auth == authorize_message(msg_type, sender_type) IN
    IF ~auth[1] THEN (IF auth[2] # "none" THEN "block" ELSE "drop")
    ELSE IF ai_enabled /\ intent = "not_allowed" THEN "ai_block"
    ELSE "accept"

LastMessageWins(all_forwarded, verdict) == verdict = "accept"

\* process_message's all_forwarded after one more message of the loop
next_all_forwarded(all_forwarded, verdict) ==
    all_forwarded /\ verdict = "accept"

InitProxy ==
    /\ trusted_gcs_ip = "127.0.0.1"
    /\ ai_enabled \in BOOLEAN
    /\ stats = [total_received |-> 0, total_forwarded |-> 0, total_blocked |-> 0,
                total_dropped |-> 0, gcs_commands |-> 0, attacker_blocked |-> 0]
    /\ fc_sent = 0
    /\ sec_log = 0
    /\ proc = IdleProc
    \* the other components are not running
    /\ seen_nonces = {} /\ nonce_queue = <<>> /\ last_valid_timestamp = 0
    /\ command_history = <<>> /\ rd_stats = 0 /\ rd_now = 0 /\ rd_last = 0
    /\ accepted_at = 0 /\ accept_count = 0 /\ max_accepted = 0
    /\ nm_counter = 0 /\ nm_issued = 0 /\ sealed = 0 /\ ae_last = 0
    /\ de_in = 0 /\ de_out = 0
    /\ now = 0 /\ key_manager = 0 /\ last_seen_counter = 0
    /\ enc_counter = 0 /\ emergency_mode = FALSE /\ ticks = 0 /\ revocation_standing = FALSE /\ cr_last = 0
    /\ inj_state = 0 /\ inj_stats = 0 /\ inj_last = 0
    /\ inf_engine = 0 /\ inf_last = 0
    /\ fd_in = 0 /\ fd_out = 0
    /\ command_timestamps = 0 /\ dos_stats = 0 /\ intent_history = 0 /\ win_log = 0
    /\ explainable_logger = 0 /\ human_log = 0 /\ decision_log = 0 /\ audit_log = 0 /\ au_now = 0
    /\ decision_engine = 0
    /\ enc_log = 0 /\ dec_log = 0 /\ restarts = 0
    /\ pipeline = 0

\* run: a datagram arrives; process_message classifies the sender and the
\* parser returns no message, so the datagram is dropped and counted blocked.
RecvNoFrame(src_ip) ==
    /\ proc.pc \in {"idle", "done"}
    /\ stats.total_received < MaxDatagrams
    /\ stats' = [stats EXCEPT !.total_received = @ + 1,
                              !.total_dropped = @ + 1,
                              !.total_blocked = @ + 1]
    /\ proc' = [IdleProc EXCEPT !.pc = "done", !.src_ip = src_ip,
                                !.sender_type = classify_sender(src_ip),
                                !.all_forwarded = FALSE]
    /\ UNCHANGED <<trusted_gcs_ip, ai_enabled, fc_sent, sec_log>>

\* run: a datagram arrives and parsing raises; process_message's except
\* clause returns False and run counts the datagram blocked.
RecvParseError(src_ip) ==
    /\ proc.pc \in {"idle", "done"}
    /\ stats.total_received < MaxDatagrams
    /\ stats' = [stats EXCEPT !.total_received = @ + 1,
                              !.total_blocked = @ + 1]
    /\ proc' = [IdleProc EXCEPT !.pc = "done", !.src_ip = src_ip,
                                !.sender_type = classify_sender(src_ip),
                                !.all_forwarded = FALSE]
    /\ UNCHANGED <<trusted_gcs_ip, ai_enabled, fc_sent, sec_log>>

\* run: a datagram arrives and the parser returns at least one message;
\* process_message enters its loop over the messages.
RecvFrames(src_ip) ==
    /\ proc.pc \in {"idle", "done"}
    /\ stats.total_received < MaxDatagrams
    /\ stats' = [stats EXCEPT !.total_received = @ + 1]
    /\ proc' = [IdleProc EXCEPT !.pc = "loop", !.src_ip = src_ip,
                                !.sender_type = classify_sender(src_ip)]
    /\ UNCHANGED <<trusted_gcs_ip, ai_enabled, fc_sent, sec_log>>

\* One iteration of process_message's loop over the parsed messages.
ProcessMsg(msg_type, sys_id, intent) ==
    /\ proc.pc = "loop"
    /\ proc.n_msgs < MaxMsgs
    /\ LET v == message_verdict(msg_type, proc.sender_type, intent) IN
       /\ proc' = [proc EXCEPT
                     !.n_msgs = @ + 1,
                     !.cur = [type |-> msg_type, sys_id |-> sys_id, verdict |-> v,
                              intent |-> IF ai_enabled /\ v \in {"accept", "ai_block"}
                                         THEN intent ELSE "not_run"],
                     !.all_forwarded = next_all_forwarded(@, v),
                     !.n_approved = IF v = "accept" THEN @ + 1 ELSE @,
                     !.has_command = @ \/ msg_type \in CommandKinds,
                     !.events = IF v = "block" THEN @ + 1 ELSE @]
       /\ stats' = [stats EXCEPT
                     !.attacker_blocked = IF v = "block" THEN @ + 1 ELSE @,
                     !.total_dropped = IF v = "drop" THEN @ + 1 ELSE @,
                     !.gcs_commands = IF v \in {"accept", "ai_block"} THEN @ + 1 ELSE @]
       /\ sec_log' = IF v = "block" THEN sec_log + 1 ELSE sec_log
    /\ UNCHANGED <<trusted_gcs_ip, ai_enabled, fc_sent>>

\* A forward_to_sitl that calls sendto a second time when the first call raised.
ForwardWithRetry(send_ok) ==
    [attempts |-> IF send_ok THEN 1 ELSE 2,
     sent |-> IF send_ok THEN 1 ELSE 0,
     errors |-> IF send_ok THEN 0 ELSE 1]

\* forward_to_sitl: one sendto call; when it raises, the failure is logged
\* ("Failed to forward to SITL") and nothing is counted forwarded.
forward_to_sitl(send_ok) ==
    [attempts |-> 1,
     sent |-> IF send_ok THEN 1 ELSE 0,
     errors |-> IF send_ok THEN 0 ELSE 1]

\* The loop ends; process_message returns all_forwarded and run either calls
\* forward_to_sitl (sendto may raise, which is logged) or counts a block.
EndOfDatagram(send_ok) ==
    /\ proc.pc = "loop"
    /\ proc.n_msgs >= 1
    /\ IF proc.all_forwarded
         THEN /\ fc_sent' = fc_sent + forward_to_sitl(send_ok).sent
              /\ stats' = [stats EXCEPT
                             !.total_forwarded = @ + forward_to_sitl(send_ok).sent]
              /\ proc' = [proc EXCEPT
                            !.pc = "done",
                            !.sent = forward_to_sitl(send_ok).sent,
                            !.attempts = forward_to_sitl(send_ok).attempts,
                            !.send_errors = forward_to_sitl(send_ok).errors]
         ELSE /\ send_ok
              /\ stats' = [stats EXCEPT !.total_blocked = @ + 1]
              /\ proc' = [proc EXCEPT !.pc = "done"]
              /\ UNCHANGED fc_sent
    /\ UNCHANGED <<trusted_gcs_ip, ai_enabled, sec_log>>

NextProxy ==
    \/ \E ip \in IPs : RecvNoFrame(ip) /\ UNCHANGED exceptProxy
    \/ \E ip \in IPs : RecvParseError(ip) /\ UNCHANGED exceptProxy
    \/ \E ip \in IPs : RecvFrames(ip) /\ UNCHANGED exceptProxy
    \/ \E t \in MsgTypes, s \in SysIds, i \in IntentOutcomes :
          ProcessMsg(t, s, i) /\ UNCHANGED exceptProxy
    \/ \E ok \in BOOLEAN : EndOfDatagram(ok) /\ UNCHANGED exceptProxy

SpecProxy == InitProxy /\ [][NextProxy]_vars

UntrustedDatagram == proc.pc # "idle" /\ proc.src_ip # trusted_gcs_ip

\* C1: a datagram from any address other than the trusted GCS address that
\* parses to a COMMAND_LONG, COMMAND_INT, SET_MODE, MISSION_*,
\* SET_POSITION_TARGET_* or SET_ATTITUDE_TARGET message is never sent to the
\* flight controller.
C1_UntrustedCommandNotForwarded ==
    (UntrustedDatagram /\ proc.has_command)
        => (proc.sent = 0 /\ ~proc.all_forwarded)

C1_Witness ==
    /\ proc.pc = "done" /\ proc.src_ip # trusted_gcs_ip
    /\ proc.has_command /\ proc.n_msgs = 2
    /\ proc.cur.type = "HEARTBEAT" /\ proc.cur.sys_id = 255
    /\ fc_sent = 1

\* C2 as stated: every datagram sent to the flight controller corresponds to
\* exactly one parsed command, and that command was accepted.
C2_ExactlyOneCommand ==
    proc.sent = 1 => (proc.n_msgs = 1 /\ proc.n_approved = 1)

\* C2 as amended: a datagram is sent to the flight controller only when it
\* parsed into at least one message and every message parsed from it was
\* accepted; nothing is sent for a datagram that parsed to nothing or that
\* holds a blocked or dropped message, and every send is one processed
\* datagram.
C2_ForwardedAllApproved ==
    /\ proc.sent = 1 => (proc.n_msgs >= 1 /\ proc.n_approved = proc.n_msgs)
    /\ (proc.pc = "done" /\ (proc.n_msgs = 0 \/ proc.n_approved < proc.n_msgs))
          => proc.sent = 0
    /\ fc_sent = stats.total_forwarded
    /\ fc_sent + stats.total_blocked <= stats.total_received

C2_Witness ==
    /\ proc.pc = "done" /\ proc.sent = 1 /\ proc.n_msgs = 2
    /\ stats.total_blocked = 1

C9_OneSecurityEventPerCommand ==
    (proc.pc = "done" /\ proc.src_ip # trusted_gcs_ip /\ proc.n_msgs = 1)
        => proc.events = (IF proc.cur.type \in CommandKinds THEN 1 ELSE 0)

(***************************************************************************)
(*                             ReplayDetector                              *)
(***************************************************************************)

\* Bounds of the replay model. The window sizes are constructor arguments
\* (defaults 10000 and 50); time is in whole seconds.
NonceWindowSize == 2       \* nonce_window_size
SequenceWindowSize == 2    \* sequence_window_size
MaxElapsed == 2            \* clock ticks in a run
\* check_command calls in a run: enough to overflow the nonce window and
\* then present an evicted nonce again
MaxCommands == NonceWindowSize + 2

TimestampTolerance == 30   \* timestamp_tolerance_sec
ReorderTolerance == 5      \* "Allow 5s reordering"
RecentWindow == 5          \* recent_window
StartTime == 100           \* the clock when the detector is constructed
\* seconds per clock tick: a frame stamped 6 s before a later clock value is
\* 1 s older than a frame stamped at the earlier one
TickSeconds == 5

Nonces == 1 .. (NonceWindowSize + 1)
Hashes == {"none", "h1"}                 \* command_hash; "none": not provided
TimestampOffsets == {-31, -6, 0, 31}     \* frame timestamp minus the clock

NoCheck ==
    [nonce |-> 0, timestamp |-> 0, hash |-> "none", is_replay |-> FALSE,
     confidence |-> 0, method |-> "none", nonce_duplicate |-> FALSE,
     timestamp_anomaly |-> FALSE, sequence_anomaly |-> FALSE,
     prev_accepted_at |-> 0, prev_accept_count |-> 0]

Abs(x) == IF x < 0 THEN -x ELSE x
Max(a, b) == IF a >= b THEN a ELSE b

\* ReplayDetector._check_nonce
check_nonce(nonce) == nonce \in seen_nonces

\* A freshness check without the test against the last valid timestamp.
FreshnessOnly(timestamp) ==
    IF timestamp < rd_now - TimestampTolerance THEN "old"
    ELSE IF timestamp > rd_now + TimestampTolerance THEN "future"
    ELSE "valid"

\* ReplayDetector._check_timestamp: "old", "future", "order" or "valid"
check_timestamp(timestamp) ==
    IF timestamp < rd_now - TimestampTolerance THEN "old"
    ELSE IF timestamp > rd_now + TimestampTolerance THEN "future"
    ELSE IF timestamp < last_valid_timestamp - ReorderTolerance THEN "order"
    ELSE "valid"

\* ReplayDetector._check_sequence
check_sequence(command_hash, timestamp) ==
    /\ command_hash # "none"
    /\ \E i \in 1 .. Len(command_history) :
          /\ command_history[i][1] = command_hash
          /\ Abs(timestamp - command_history[i][2]) < RecentWindow

\* An aggregation that looks at the sequence layer before the timestamp layer.
SequenceBeforeTimestamp(nonce_dup, timestamp_anomaly, sequence_anomaly) ==
    IF nonce_dup THEN <<TRUE, 100, "nonce_duplicate">>
    ELSE IF sequence_anomaly THEN <<TRUE, 70, "sequence">>
    ELSE IF timestamp_anomaly THEN <<TRUE, 85, "timestamp">>
    ELSE <<FALSE, 0, "none">>

\* ReplayDetector._aggregate_detection: <<is_replay, confidence (percent), method>>
aggregate_detection(nonce_dup, timestamp_anomaly, sequence_anomaly) ==
    IF nonce_dup THEN <<TRUE, 100, "nonce_duplicate">>
    ELSE IF timestamp_anomaly
           THEN IF sequence_anomaly THEN <<TRUE, 95, "timestamp_sequence">>
                ELSE <<TRUE, 85, "timestamp">>
    ELSE IF sequence_anomaly THEN <<TRUE, 70, "sequence">>
    ELSE <<FALSE, 0, "none">>

\* An append that never drops the oldest element.
AppendUnbounded(q, x, maxlen) == q \o <<x>>

\* collections.deque(maxlen = n).append
deque_append(q, x, maxlen) ==
    IF Len(q) >= maxlen THEN Tail(q) \o <<x>> ELSE q \o <<x>>

\* A tracking update that evicts at capacity but records nothing.
NonceNotRecorded(seen, queue, nonce) ==
    IF Len(queue) >= NonceWindowSize THEN seen \ {queue[1]} ELSE seen

EvictNewest(seen, queue, nonce) ==
    (IF Len(queue) >= NonceWindowSize
       THEN seen \ {queue[Len(queue)]} ELSE seen) \cup {nonce}

\* ReplayDetector._update_tracking: the new seen_nonces
update_seen_nonces(seen, queue, nonce) ==
    (IF Len(queue) >= NonceWindowSize
       THEN seen \ {queue[1]} ELSE seen) \cup {nonce}

InitReplay ==
    /\ seen_nonces = {}
    /\ nonce_queue = <<>>
    /\ last_valid_timestamp = 0
    /\ command_history = <<>>
    /\ rd_stats = [total_commands |-> 0, detected_replays |-> 0]
    /\ rd_now = StartTime
    /\ rd_last = NoCheck
    /\ accepted_at = [n \in Nonces |-> 0]
    /\ accept_count = 0
    /\ max_accepted = [ever |-> 0, since_reset |-> 0]
    \* the other components are not running
    /\ trusted_gcs_ip = "127.0.0.1" /\ ai_enabled = FALSE /\ stats = 0
    /\ fc_sent = 0 /\ sec_log = 0 /\ proc = IdleProc
    /\ now = 0 /\ key_manager = 0 /\ last_seen_counter = 0
    /\ enc_counter = 0 /\ emergency_mode = FALSE /\ ticks = 0 /\ revocation_standing = FALSE /\ cr_last = 0
    /\ nm_counter = 0 /\ nm_issued = 0 /\ sealed = 0 /\ ae_last = 0
    /\ de_in = 0 /\ de_out = 0
    /\ inj_state = 0 /\ inj_stats = 0 /\ inj_last = 0
    /\ inf_engine = 0 /\ inf_last = 0
    /\ fd_in = 0 /\ fd_out = 0
    /\ command_timestamps = 0 /\ dos_stats = 0 /\ intent_history = 0 /\ win_log = 0
    /\ explainable_logger = 0 /\ human_log = 0 /\ decision_log = 0 /\ audit_log = 0 /\ au_now = 0
    /\ decision_engine = 0
    /\ enc_log = 0 /\ dec_log = 0 /\ restarts = 0
    /\ pipeline = 0

\* ReplayDetector.check_command
CheckCommand(nonce, timestamp, command_hash) ==
    /\ rd_stats.total_commands < MaxCommands
    /\ LET nonce_duplicate == check_nonce(nonce)
           ts_result == check_timestamp(timestamp)
           timestamp_anomaly == ts_result # "valid"
           sequence_anomaly == check_sequence(command_hash, timestamp)
           agg == aggregate_detection(nonce_duplicate, timestamp_anomaly,
                                      sequence_anomaly)
           is_replay == agg[1]
       IN
       /\ rd_stats' = [total_commands |-> rd_stats.total_commands + 1,
                       detected_replays |-> IF is_replay
                                              THEN rd_stats.detected_replays + 1
                                              ELSE rd_stats.detected_replays]
       /\ IF is_replay
            THEN UNCHANGED <<seen_nonces, nonce_queue, last_valid_timestamp,
                             command_history, accepted_at, accept_count,
                             max_accepted>>
            ELSE \* _update_tracking
                 /\ seen_nonces' = update_seen_nonces(seen_nonces, nonce_queue, nonce)
                 /\ nonce_queue' = deque_append(nonce_queue, nonce, NonceWindowSize)
                 /\ last_valid_timestamp' = Max(last_valid_timestamp, timestamp)
                 /\ command_history' =
                        IF command_hash # "none"
                          THEN deque_append(command_history,
                                            <<command_hash, timestamp>>,
                                            SequenceWindowSize)
                          ELSE command_history
                 /\ accept_count' = accept_count + 1
                 /\ accepted_at' = [accepted_at EXCEPT ![nonce] = accept_count + 1]
                 /\ max_accepted' = [ever |-> Max(max_accepted.ever, timestamp),
                                      since_reset |-> Max(max_accepted.since_reset, timestamp)]
       /\ rd_last' = [nonce |-> nonce, timestamp |-> timestamp,
                      hash |-> command_hash, is_replay |-> is_replay,
                      confidence |-> agg[2], method |-> agg[3],
                      nonce_duplicate |-> nonce_duplicate,
                      timestamp_anomaly |-> timestamp_anomaly,
                      sequence_anomaly |-> sequence_anomaly,
                      prev_accepted_at |-> accepted_at[nonce],
                      prev_accept_count |-> accept_count]
    /\ UNCHANGED rd_now

\* ReplayDetector.reset
ResetDetector ==
    /\ rd_stats.total_commands > 0
    /\ seen_nonces' = {}
    /\ nonce_queue' = <<>>
    /\ command_history' = <<>>
    /\ last_valid_timestamp' = 0
    /\ rd_stats' = [total_commands |-> 0, detected_replays |-> 0]
    /\ accepted_at' = [n \in Nonces |-> 0]
    /\ accept_count' = 0
    /\ max_accepted' = [max_accepted EXCEPT !.since_reset = 0]
    /\ rd_last' = NoCheck
    /\ UNCHANGED rd_now

\* time.time() advances between calls
ReplayTick ==
    /\ rd_now < StartTime + MaxElapsed * TickSeconds
    /\ rd_now' = rd_now + TickSeconds
    /\ UNCHANGED <<seen_nonces, nonce_queue, last_valid_timestamp, command_history,
                   rd_stats, rd_last, accepted_at, accept_count, max_accepted>>

NextReplay ==
    \/ \E n \in Nonces, off \in TimestampOffsets, h \in Hashes :
          CheckCommand(n, rd_now + off, h) /\ UNCHANGED exceptReplay
    \/ ResetDetector /\ UNCHANGED exceptReplay
    \/ ReplayTick /\ UNCHANGED exceptReplay

SpecReplay == InitReplay /\ [][NextReplay]_vars

\* C4 as stated: once a frame with nonce n has been accepted, every later
\* frame with nonce n is reported as a replay, however many frames were
\* accepted in between.
C4_AcceptedNonceAlwaysReplay ==
    rd_last.prev_accepted_at > 0 => rd_last.is_replay

\* C4 as amended: once a frame with nonce n has been accepted, a later frame
\* with nonce n is reported as a replay (nonce duplicate, confidence 1.0) as
\* long as fewer than nonce_window_size frames have been accepted since and
\* the detector has not been reset.
C4_AcceptedNonceReplayWithinWindow ==
    (/\ rd_last.prev_accepted_at > 0
     /\ rd_last.prev_accept_count - rd_last.prev_accepted_at < NonceWindowSize)
        => (/\ rd_last.is_replay
            /\ rd_last.method = "nonce_duplicate"
            /\ rd_last.confidence = 100)

C4_Witness ==
    /\ rd_last.prev_accepted_at > 0
    /\ rd_last.prev_accept_count - rd_last.prev_accepted_at = NonceWindowSize - 1
    /\ rd_last.is_replay
    /\ ~rd_last.timestamp_anomaly /\ ~rd_last.sequence_anomaly

\* A step that is one call of check_command; rd_last' is the call.
CheckStep == rd_stats'.total_commands = rd_stats.total_commands + 1

\* A step that is one call of reset.
ResetStep == rd_stats.total_commands > 0 /\ rd_stats'.total_commands = 0

\* C13 as stated: every frame accepted has a timestamp no more than
\* ReorderTolerance below the largest timestamp of any frame accepted before
\* it, and the stored highest accepted timestamp never decreases.
C13_AcceptedNearLargestEverAccepted ==
    [][ /\ (CheckStep /\ ~rd_last'.is_replay)
            => rd_last'.timestamp >= max_accepted.ever - ReorderTolerance
        /\ last_valid_timestamp' >= last_valid_timestamp ]_vars

\* C13, amended: the stored highest accepted timestamp is the largest
\* timestamp accepted since the detector was constructed or last reset; every
\* frame accepted has a timestamp no more than ReorderTolerance below it; and
\* the stored value never decreases except that reset() sets it back to 0.
C13_AcceptedNearLargestSinceReset ==
    [][ /\ (CheckStep /\ ~rd_last'.is_replay)
            => /\ rd_last'.timestamp >= max_accepted.since_reset - ReorderTolerance
               /\ rd_last'.timestamp >= last_valid_timestamp - ReorderTolerance
               /\ last_valid_timestamp' >= rd_last'.timestamp
        /\ last_valid_timestamp' = max_accepted'.since_reset
        /\ ~ResetStep => last_valid_timestamp' >= last_valid_timestamp
        /\ ResetStep => last_valid_timestamp' = 0 ]_vars

\* A frame stamped below the highest accepted timestamp, within the reorder
\* tolerance, has just been accepted and has left the stored value alone.
C13_Witness ==
    /\ ~rd_last.is_replay
    /\ rd_stats.total_commands >= 2
    /\ rd_last.timestamp < last_valid_timestamp
    /\ rd_last.timestamp >= last_valid_timestamp - ReorderTolerance
    /\ last_valid_timestamp = max_accepted.since_reset

\* C14: a frame classified as a replay leaves the nonce window, the highest
\* accepted timestamp and the payload-hash window unchanged; only a frame
\* classified clean records its nonce, updates the maximum timestamp and
\* appends its payload hash (when it has one).
C14_OnlyCleanFramesAreTracked ==
    [][ CheckStep =>
          IF rd_last'.is_replay
          THEN /\ seen_nonces' = seen_nonces
               /\ nonce_queue' = nonce_queue
               /\ last_valid_timestamp' = last_valid_timestamp
               /\ command_history' = command_history
          ELSE /\ rd_last'.nonce \in seen_nonces'
               /\ Len(nonce_queue') > 0
               /\ nonce_queue'[Len(nonce_queue')] = rd_last'.nonce
               /\ last_valid_timestamp' = Max(last_valid_timestamp, rd_last'.timestamp)
               /\ IF rd_last'.hash = "none"
                  THEN command_history' = command_history
                  ELSE /\ Len(command_history') > 0
                       /\ command_history'[Len(command_history')]
                              = <<rd_last'.hash, rd_last'.timestamp>> ]_vars

\* A frame with a new nonce, a payload hash and a timestamp above the highest
\* accepted one has just been classified as a replay, and none of the three
\* was recorded; an earlier clean frame with a payload hash was recorded.
C14_Witness ==
    /\ rd_last.is_replay
    /\ rd_last.nonce \notin seen_nonces
    /\ rd_last.hash /= "none"
    /\ rd_last.timestamp > last_valid_timestamp
    /\ Len(nonce_queue) > 0 /\ Len(command_history) > 0
    /\ \A i \in 1 .. Len(command_history) :
          command_history[i][2] /= rd_last.timestamp
    /\ \A i \in 1 .. Len(nonce_queue) : nonce_queue[i] /= rd_last.nonce

\* The nonces held by the FIFO queue.
QueueContents(q) == {q[i] : i \in 1 .. Len(q)}

\* C15: the nonce window never holds more than nonce_window_size nonces; when
\* a nonce is recorded at capacity exactly the oldest recorded nonce is
\* evicted; and the membership set always equals the contents of the queue.
C15_NonceWindowBoundedFifo ==
    [][ /\ Len(nonce_queue') <= NonceWindowSize
        /\ Cardinality(seen_nonces') <= NonceWindowSize
        /\ seen_nonces' = QueueContents(nonce_queue')
        /\ Cardinality(seen_nonces') = Len(nonce_queue')
        /\ (CheckStep /\ ~rd_last'.is_replay)
             => IF Len(nonce_queue) = NonceWindowSize
                THEN /\ nonce_queue' = Tail(nonce_queue) \o <<rd_last'.nonce>>
                     /\ seen_nonces' = (seen_nonces \ {nonce_queue[1]}) \cup {rd_last'.nonce}
                     /\ nonce_queue[1] \notin seen_nonces'
                ELSE /\ nonce_queue' = nonce_queue \o <<rd_last'.nonce>>
                     /\ seen_nonces' = seen_nonces \cup {rd_last'.nonce} ]_vars

\* The window is full and the frame just accepted pushed the oldest nonce out.
C15_Witness ==
    /\ ~rd_last.is_replay
    /\ accept_count = NonceWindowSize + 1
    /\ Len(nonce_queue) = NonceWindowSize
    /\ nonce_queue[Len(nonce_queue)] = rd_last.nonce
    /\ \E n \in Nonces : accepted_at[n] = 1 /\ n \notin seen_nonces

\* The rules of the replay check in the words of the specification, on the
\* detector's state before the call.
NonceInWindow(c) == c.nonce \in seen_nonces

TimestampRuleHit(c) ==
    \/ Abs(rd_now - c.timestamp) > TimestampTolerance
    \/ c.timestamp + ReorderTolerance < last_valid_timestamp

PayloadRuleHit(c) ==
    /\ c.hash /= "none"
    /\ \E i \in 1 .. Len(command_history) :
          /\ command_history[i][1] = c.hash
          /\ Abs(c.timestamp - command_history[i][2]) < RecentWindow

Verdict(c, is_replay, confidence) ==
    c.is_replay = is_replay /\ c.confidence = confidence

\* C16 as stated: nonce in the window: replay, confidence 1.0; otherwise a
\* timestamp outside the tolerance or more than ReorderTolerance behind the
\* highest accepted one: replay, 0.85; otherwise a payload hash matching a
\* recent entry: replay, 0.70; otherwise clean.
C16_FirstDecisiveRule ==
    [][ CheckStep =>
          IF NonceInWindow(rd_last') THEN Verdict(rd_last', TRUE, 100)
          ELSE IF TimestampRuleHit(rd_last') THEN Verdict(rd_last', TRUE, 85)
          ELSE IF PayloadRuleHit(rd_last') THEN Verdict(rd_last', TRUE, 70)
          ELSE Verdict(rd_last', FALSE, 0) ]_vars

\* C16, amended: as stated, except that a frame that breaks the timestamp
\* rule and also matches a recent payload hash is a replay with confidence
\* 0.95; the timestamp rule alone gives 0.85.
C16_FirstDecisiveRuleWithCombinedCase ==
    [][ CheckStep =>
          IF NonceInWindow(rd_last') THEN Verdict(rd_last', TRUE, 100)
          ELSE IF TimestampRuleHit(rd_last')
               THEN IF PayloadRuleHit(rd_last') THEN Verdict(rd_last', TRUE, 95)
                    ELSE Verdict(rd_last', TRUE, 85)
          ELSE IF PayloadRuleHit(rd_last') THEN Verdict(rd_last', TRUE, 70)
          ELSE Verdict(rd_last', FALSE, 0) ]_vars

\* A frame with a new nonce has just broken the timestamp rule and matched a
\* recent payload hash at once.
C16_Witness ==
    /\ rd_last.is_replay /\ rd_last.confidence = 95
    /\ ~rd_last.nonce_duplicate
    /\ rd_last.timestamp_anomaly /\ rd_last.sequence_anomaly
    /\ rd_last.nonce \notin seen_nonces
    /\ PayloadRuleHit(rd_last) /\ TimestampRuleHit(rd_last)

(***************************************************************************)
(*        Crypto layer: KeyManager, encryptor, decryptor, CryptoGate       *)
(*                                                                         *)
(* crypto_gate.py imports decrypt_payload and the global key_manager; the  *)
(* decryptor and the encryptor use the same key_manager.  Time is counted  *)
(* in whole seconds and one call reads one value of time.time().  A key is *)
(* named by the ordinal of the session it was derived for: two sessions    *)
(* have different random session ids, hence different HKDF outputs.        *)
(***************************************************************************)
MaxCounter  == 1     \* nonce counters carried by frames: 0..MaxCounter
MaxSessions == 2     \* session keys derived in one run
MaxTicks    == 1     \* clock advances in one run

SESSION_KEY_LIFETIME     == 1800   \* 30 * 60
GRACE_PERIOD             == 300    \* 5 * 60
MAX_COMMANDS_PER_SESSION == 1000
ROTATION_CHECK_INTERVAL  == 60
MaxTimeSkew              == 30     \* CryptoGate._validate_timestamp

NoKey == 0

NoMetadata == [state |-> "none", created_at |-> 0, expires_at |-> 0, session_id |-> 0,
               command_count |-> 0, last_rotation |-> 0, risk_level |-> "low"]

NoOldMetadata == [session_id |-> 0, state |-> "none", expires_at |-> 0,
                  prior_state |-> "none"]

failsafe_commands == {"RETURN_TO_LAUNCH", "LAND", "DISARM"}

\* The commands a test frame carries: one failsafe command and one that is not.
Commands == {"RETURN_TO_LAUNCH", "ARM_AND_TAKEOFF"}

\* Amounts by which the clock advances between two calls.
TickAmounts == {ROTATION_CHECK_INTERVAL, SESSION_KEY_LIFETIME - GRACE_PERIOD + 1}

\* The messages of the ValueErrors raised in the crypto layer; InvalidTag is
\* the cryptography library's exception (not a ValueError, empty message).
ErrNoKey     == "No active session key"
ErrExpired   == "Session key expired - rotation required"
ErrRevoked   == "Session key revoked"
ErrReplay    == "Replay attack detected"
ErrEmergency == "Cryptographic key failure - emergency mode activated"
InvalidTag   == "InvalidTag"

\* The words a handler looks for that occur in the message (`word in str(e)`,
\* or `word in str(e).lower()`).
ErrorWords(err) ==
    IF err = ErrExpired THEN {"expired"}
    ELSE IF err = ErrRevoked THEN {"revoked"}
    ELSE IF err = ErrReplay THEN {"replay"}
    ELSE IF err = ErrEmergency THEN {"emergency"}
    ELSE {}

\* KeyManager._derive_session_key at time t: a new key, fresh ACTIVE metadata
\* in the "session" slot; _command_counter is left as it is.
derive_session_key(km, t) ==
    [km EXCEPT !.session_key = km.sessions_derived + 1,
               !.sessions_derived = km.sessions_derived + 1,
               !.metadata = [state |-> "active", created_at |-> t,
                             expires_at |-> t + SESSION_KEY_LIFETIME,
                             session_id |-> km.sessions_derived + 1,
                             command_count |-> 0, last_rotation |-> 0,
                             risk_level |-> "low"]]

\* KeyManager.rotate_session_key, lines 300-304: the object in the "session"
\* slot is marked GRACE whatever its state.  Kept of the retired object: its
\* identity, the two fields written to it and, as history, the state it had.
retired_metadata(km, t) ==
    [session_id |-> km.metadata.session_id, state |-> "grace",
     expires_at |-> t + GRACE_PERIOD, prior_state |-> km.metadata.state]

set_last_rotation(km, t) == [km EXCEPT !.metadata.last_rotation = t]

\* KeyManager.rotate_session_key: the marked object is then replaced in the
\* slot by the new session's metadata.
rotate_session_key(km, t) ==
    set_last_rotation(
        derive_session_key([km EXCEPT !.old_metadata = retired_metadata(km, t)], t), t)

\* KeyManager.revoke_session_key with _destroy_session_key.
revoke_session_key(km) ==
    [km EXCEPT !.metadata.state = "revoked", !.session_key = NoKey,
               !.command_counter = 0]

increment_command_counter(km) ==
    [km EXCEPT !.command_counter = km.command_counter + 1,
               !.metadata.command_count = km.command_counter + 1]

\* A trigger check that leaves the risk level out.
RiskTriggerIgnored(km, t) ==
    \/ t > km.metadata.expires_at - GRACE_PERIOD
    \/ km.metadata.command_count >= MAX_COMMANDS_PER_SESSION

update_risk_level(km, risk_level) == [km EXCEPT !.metadata.risk_level = risk_level]

rotation_needed(km, t) ==
    \/ t > km.metadata.expires_at - GRACE_PERIOD
    \/ km.metadata.command_count >= MAX_COMMANDS_PER_SESSION
    \/ km.metadata.risk_level \in {"high", "critical"}

rotate_if_needed(km, t) ==
    IF rotation_needed(km, t) THEN rotate_session_key(km, t) ELSE km

check_rotation_triggers(km, t) ==
    IF t - km.last_rotation_check < ROTATION_CHECK_INTERVAL THEN km
    ELSE rotate_if_needed([km EXCEPT !.last_rotation_check = t], t)

\* KeyManager.get_active_session_key after the trigger check: the message of
\* the ValueError raised, "" when the key is returned.
session_key_error(km, t) ==
    IF km.session_key = NoKey THEN ErrNoKey
    ELSE IF t > km.metadata.expires_at THEN ErrExpired
    ELSE IF km.metadata.state = "revoked" THEN ErrRevoked
    ELSE ""

key_or_error(km, err) ==
    [km |-> km, err |-> err, key |-> IF err = "" THEN km.session_key ELSE NoKey]

checked_session_key(km, t) == key_or_error(km, session_key_error(km, t))

\* KeyManager.get_active_session_key: the manager afterwards, and the key
\* returned or the message of the ValueError raised.
get_active_session_key(km, t) == checked_session_key(check_rotation_triggers(km, t), t)

\* The session key is revoked: the state revoke_session_key leaves behind.
Revoked(km) == km.session_key = NoKey /\ km.metadata.state = "revoked"

\* KeyManager.validate_key_hierarchy; the root key and its metadata exist and
\* the root key's year of life does not end within a run.
validate_key_hierarchy(km) ==
    /\ km.session_key /= NoKey
    /\ km.metadata.state \in {"active", "grace"}

\* A replay test that lets the last seen counter through once more.
ReplayStrictlyLess(counter, last_seen) == counter < last_seen

\* decryptor.decrypt_payload, line 19: the replay test on the nonce counter.
is_replay_counter(counter, last_seen) == counter <= last_seen

\* AESGCM(current_key).decrypt: the tag verifies only under the key the frame
\* was sealed with; frame.key = NoKey stands for a forged or damaged frame.
aesgcm_decrypt_ok(key, frame) == frame.key /= NoKey /\ frame.key = key

\* decryptor.decrypt_payload from line 25 on, g being what
\* get_active_session_key gave: a key error is re-raised, as "emergency mode
\* activated" when it mentions expiry or revocation.
decrypt_with_key(g, last_seen, frame) ==
    IF g.err /= ""
    THEN [km |-> g.km, last_seen_counter |-> last_seen,
          err |-> IF ErrorWords(g.err) \cap {"expired", "revoked"} /= {}
                  THEN ErrEmergency ELSE g.err]
    ELSE IF ~aesgcm_decrypt_ok(g.key, frame)
    THEN [km |-> g.km, last_seen_counter |-> last_seen, err |-> InvalidTag]
    ELSE [km |-> increment_command_counter(g.km),
          last_seen_counter |-> frame.counter, err |-> ""]

\* decryptor.decrypt_payload: the key manager and last_seen_counter afterwards,
\* and the exception that leaves the function ("" when the plaintext is returned).
decrypt_payload(km, last_seen, frame, t) ==
    IF is_replay_counter(frame.counter, last_seen)
    THEN [km |-> update_risk_level(km, "high"), last_seen_counter |-> last_seen,
          err |-> ErrReplay]
    ELSE decrypt_with_key(get_active_session_key(km, t), last_seen, frame)

\* CryptoGate._validate_timestamp on the payload "command|timestamp".
validate_timestamp(frame, t) ==
    IF frame.has_timestamp THEN ~(Abs(t - frame.timestamp) > MaxTimeSkew) ELSE TRUE

\* CryptoGate._enter_emergency_mode, as the pair it leaves behind.
enter_emergency_mode(km) == [km |-> revoke_session_key(km), emergency_mode |-> TRUE]

gate_result(km, em, last_seen, ok, err, decrypt_called) ==
    [km |-> km, emergency_mode |-> em, last_seen_counter |-> last_seen,
     ok |-> ok, err |-> err, decrypt_called |-> decrypt_called]

\* CryptoGate.crypto_check from line 42 on, d being the outcome of
\* decrypt_payload: the timestamp check, or the handler of the exception.
handle_decrypt(d, em, frame, t) ==
    IF d.err = ""
    THEN IF validate_timestamp(frame, t)
         THEN gate_result(d.km, em, d.last_seen_counter, TRUE, "", TRUE)
         ELSE gate_result(update_risk_level(d.km, "medium"), em,
                          d.last_seen_counter, FALSE, "", TRUE)
    ELSE IF d.err = InvalidTag
    THEN gate_result(update_risk_level(d.km, "high"), em,
                     d.last_seen_counter, FALSE, d.err, TRUE)
    ELSE IF "expired" \in ErrorWords(d.err)
    THEN gate_result(rotate_session_key(d.km, t), em,
                     d.last_seen_counter, FALSE, d.err, TRUE)
    ELSE IF "revoked" \in ErrorWords(d.err)
    THEN gate_result(enter_emergency_mode(d.km).km, TRUE,
                     d.last_seen_counter, FALSE, d.err, TRUE)
    ELSE IF "replay" \in ErrorWords(d.err)
    THEN gate_result(update_risk_level(d.km, "high"), em,
                     d.last_seen_counter, FALSE, d.err, TRUE)
    ELSE IF "emergency" \in ErrorWords(d.err)
    THEN gate_result(d.km, TRUE, d.last_seen_counter, FALSE, d.err, TRUE)
    ELSE gate_result(d.km, em, d.last_seen_counter, FALSE, d.err, TRUE)

\* CryptoGate.crypto_check: (success, payload) and the state it leaves behind.
\* Neither emergency_mode nor failsafe_commands is read anywhere in it.
crypto_check(km, em, last_seen, frame, t) ==
    IF ~validate_key_hierarchy(km)
    THEN gate_result(enter_emergency_mode(km).km, TRUE, last_seen, FALSE, "", FALSE)
    ELSE handle_decrypt(decrypt_payload(km, last_seen, frame, t), em, frame, t)

NoFrame == [counter |-> 0, key |-> NoKey, command |-> "", has_timestamp |-> FALSE,
            timestamp |-> 0]

\* The keys a peer's frame can be sealed under: the current session's, the
\* previous session's, or none of the two (a forged or damaged frame).
FrameKeys(km) == {NoKey, km.old_metadata.session_id, km.metadata.session_id}

\* The frames a peer can present at time t, with a fresh timestamp in the
\* payload, and the stale ones (one command is enough for those).
Frames(km, t) ==
    { [counter |-> c, key |-> k, command |-> cmd, has_timestamp |-> TRUE,
       timestamp |-> t] :
        c \in 0..MaxCounter, k \in FrameKeys(km), cmd \in Commands }
    \cup
    { [counter |-> c, key |-> k, command |-> "RETURN_TO_LAUNCH",
       has_timestamp |-> TRUE, timestamp |-> t - MaxTimeSkew - 1] :
        c \in 0..MaxCounter, k \in FrameKeys(km) }

\* Frames whose payload is opaque to the caller and carries no timestamp, as
\* in the tests of decrypt_payload.
BareFrames(km) ==
    { [counter |-> c, key |-> k, command |-> "", has_timestamp |-> FALSE,
       timestamp |-> 0] :
        c \in 0..MaxCounter, k \in FrameKeys(km) }

CryptoOp(op, frame, ok, err, decrypt_called) ==
    [op |-> op, frame |-> frame, ok |-> ok, err |-> err,
     decrypt_called |-> decrypt_called]

InitCrypto ==
    /\ now = StartTime
    /\ key_manager = derive_session_key(
           [session_key |-> NoKey, sessions_derived |-> 0, metadata |-> NoMetadata,
            old_metadata |-> NoOldMetadata, command_counter |-> 0,
            last_rotation_check |-> StartTime], StartTime)
    /\ last_seen_counter = 0
    /\ enc_counter = 0
    /\ emergency_mode = FALSE
    /\ ticks = 0
    /\ revocation_standing = FALSE
    /\ cr_last = CryptoOp("init", NoFrame, TRUE, "", FALSE)
    \* the proxy and the replay detector are idle
    /\ trusted_gcs_ip = "127.0.0.1" /\ ai_enabled = FALSE /\ stats = 0
    /\ fc_sent = <<>> /\ sec_log = <<>> /\ proc = IdleProc
    /\ seen_nonces = {} /\ nonce_queue = <<>> /\ last_valid_timestamp = 0
    /\ command_history = <<>> /\ rd_stats = 0 /\ rd_now = 0 /\ rd_last = 0
    /\ accepted_at = 0 /\ accept_count = 0 /\ max_accepted = 0
    /\ nm_counter = 0 /\ nm_issued = 0 /\ sealed = 0 /\ ae_last = 0
    /\ de_in = 0 /\ de_out = 0
    /\ inj_state = 0 /\ inj_stats = 0 /\ inj_last = 0
    /\ inf_engine = 0 /\ inf_last = 0
    /\ fd_in = 0 /\ fd_out = 0
    /\ command_timestamps = 0 /\ dos_stats = 0 /\ intent_history = 0 /\ win_log = 0
    /\ explainable_logger = 0 /\ human_log = 0 /\ decision_log = 0 /\ audit_log = 0 /\ au_now = 0
    /\ decision_engine = 0
    /\ enc_log = 0 /\ dec_log = 0 /\ restarts = 0
    /\ pipeline = 0

\* encryptor.encrypt_payload from line 18 on, g being what
\* get_active_session_key gave.
encrypt_with_key(g) ==
    /\ key_manager' = IF g.err = "" THEN increment_command_counter(g.km) ELSE g.km
    /\ cr_last' = CryptoOp("encrypt_payload",
                     [counter |-> enc_counter + 1, key |-> g.key, command |-> "",
                      has_timestamp |-> FALSE, timestamp |-> 0],
                     g.err = "", g.err, FALSE)

\* encryptor.encrypt_payload: the nonce is drawn before the key is asked for.
EncryptPayload ==
    /\ enc_counter < MaxCounter
    /\ enc_counter' = enc_counter + 1
    /\ encrypt_with_key(get_active_session_key(key_manager, now))
    /\ key_manager'.sessions_derived <= MaxSessions
    /\ UNCHANGED <<now, ticks, last_seen_counter, emergency_mode, revocation_standing>>

decrypt_returns(d, frame) ==
    /\ key_manager' = d.km
    /\ last_seen_counter' = d.last_seen_counter
    /\ cr_last' = CryptoOp("decrypt_payload", frame, d.err = "", d.err, TRUE)

\* decrypt_payload called directly, as the crypto tests do.
DecryptPayload(frame) ==
    /\ decrypt_returns(decrypt_payload(key_manager, last_seen_counter, frame, now), frame)
    /\ key_manager'.sessions_derived <= MaxSessions
    /\ UNCHANGED <<now, ticks, enc_counter, emergency_mode, revocation_standing>>

crypto_check_returns(r, frame) ==
    /\ key_manager' = r.km
    /\ emergency_mode' = r.emergency_mode
    /\ last_seen_counter' = r.last_seen_counter
    /\ cr_last' = CryptoOp("crypto_check", frame, r.ok, r.err, r.decrypt_called)
    /\ revocation_standing' = (revocation_standing \/ Revoked(r.km))

CryptoCheck(frame) ==
    /\ crypto_check_returns(
           crypto_check(key_manager, emergency_mode, last_seen_counter, frame, now),
           frame)
    /\ key_manager'.sessions_derived <= MaxSessions
    /\ UNCHANGED <<now, ticks, enc_counter>>

\* `keys rotate`: the operator rotates the session key.
RotateSessionKey ==
    /\ key_manager.sessions_derived < MaxSessions
    /\ key_manager' = rotate_session_key(key_manager, now)
    /\ cr_last' = CryptoOp("rotate_session_key", NoFrame, TRUE, "", FALSE)
    /\ revocation_standing' = FALSE
    /\ UNCHANGED <<now, ticks, last_seen_counter, enc_counter, emergency_mode>>

\* `keys revoke`: the operator revokes the session key.
RevokeSessionKey ==
    /\ key_manager' = revoke_session_key(key_manager)
    /\ cr_last' = CryptoOp("revoke_session_key", NoFrame, TRUE, "", FALSE)
    /\ revocation_standing' = TRUE
    /\ UNCHANGED <<now, ticks, last_seen_counter, enc_counter, emergency_mode>>

ResetEmergencyMode ==
    /\ emergency_mode' = FALSE
    /\ cr_last' = CryptoOp("reset_emergency_mode", NoFrame, TRUE, "", FALSE)
    /\ revocation_standing' = FALSE
    /\ UNCHANGED <<now, ticks, key_manager, last_seen_counter, enc_counter>>

CryptoTick(d) ==
    /\ ticks < MaxTicks
    /\ ticks' = ticks + 1
    /\ now' = now + d
    /\ UNCHANGED <<key_manager, last_seen_counter, enc_counter, emergency_mode,
                   revocation_standing, cr_last>>

NextCrypto ==
    \/ EncryptPayload /\ UNCHANGED exceptCrypto
    \/ \E f \in BareFrames(key_manager) :
          DecryptPayload(f) /\ UNCHANGED exceptCrypto
    \/ \E f \in Frames(key_manager, now) :
          CryptoCheck(f) /\ UNCHANGED exceptCrypto
    \/ RotateSessionKey /\ UNCHANGED exceptCrypto
    \/ RevokeSessionKey /\ UNCHANGED exceptCrypto
    \/ ResetEmergencyMode /\ UNCHANGED exceptCrypto
    \/ \E d \in TickAmounts : CryptoTick(d) /\ UNCHANGED exceptCrypto

SpecCrypto == InitCrypto /\ [][NextCrypto]_vars

(***************************************************************************)
(*                        Claims on the crypto layer                       *)
(***************************************************************************)
\* A step in which decrypt_payload ran on cr_last'.frame (the clock stands
\* still during a call; every call writes cr_last).
DecryptStep == now' = now /\ cr_last'.decrypt_called

GateStep == now' = now /\ cr_last'.op = "crypto_check"

\* C5: decrypting a frame whose nonce counter is less than or equal to the
\* counter of the last successfully decrypted frame is rejected as a replay,
\* and the session key's risk level is set to high.
C5_ReplayCounterRejected ==
    [][ (DecryptStep /\ cr_last'.frame.counter <= last_seen_counter)
        => /\ ~cr_last'.ok
           /\ cr_last'.err = ErrReplay
           /\ key_manager'.metadata.risk_level = "high"
           /\ last_seen_counter' = last_seen_counter ]_vars

\* A frame with the counter of a frame decrypted earlier was presented to
\* decrypt_payload and rejected.
C5_Witness ==
    /\ cr_last.decrypt_called
    /\ cr_last.frame.counter >= 1
    /\ cr_last.frame.counter <= last_seen_counter
    /\ cr_last.frame.key = key_manager.session_key
    /\ cr_last.err = ErrReplay
    /\ key_manager.metadata.risk_level = "high"

\* C6: when the gate processes a frame while the session key is revoked it
\* enters emergency mode and rejects the frame unless its command is a
\* failsafe one; in emergency mode only rtl, land and disarm can be accepted.
C6_EmergencyOnlyFailsafe ==
    [][ /\ (GateStep /\ Revoked(key_manager))
            => /\ emergency_mode'
               /\ (cr_last'.ok => cr_last'.frame.command \in failsafe_commands)
        /\ (GateStep /\ emergency_mode /\ cr_last'.ok)
            => cr_last'.frame.command \in failsafe_commands ]_vars

\* C7: after a revocation, until reset_emergency_mode or an operator's
\* rotation, get_active_session_key returns no key and no command other than
\* rtl/land/disarm is accepted, whatever time passes and whatever rotation
\* trigger is set.
C7_RevocationHoldsUntilManualReset ==
    revocation_standing =>
        /\ key_manager.session_key = NoKey
        /\ ~(cr_last.op = "encrypt_payload" /\ cr_last.ok)
        /\ (cr_last.op \in {"crypto_check", "decrypt_payload"} /\ cr_last.ok)
              => cr_last.frame.command \in failsafe_commands

StateRank(state) ==
    IF state = "active" THEN 0 ELSE IF state = "grace" THEN 1 ELSE 2

\* C8: a session's metadata state only moves along active -> grace ->
\* expired|revoked; no operation moves it back, and a revoked session is never
\* marked grace or active afterwards.
C8_StateNeverRetrogrades ==
    [][ /\ key_manager'.metadata.session_id = key_manager.metadata.session_id
            => StateRank(key_manager'.metadata.state)
                  >= StateRank(key_manager.metadata.state)
        /\ key_manager'.old_metadata.session_id = key_manager.metadata.session_id
            => StateRank(key_manager'.old_metadata.state)
                  >= StateRank(key_manager.metadata.state)
        /\ ( /\ key_manager'.old_metadata.session_id = key_manager.old_metadata.session_id
             /\ key_manager.old_metadata.session_id /= 0 )
            => StateRank(key_manager'.old_metadata.state)
                  >= StateRank(key_manager.old_metadata.state) ]_vars

\* C10: after a rotation a frame sealed under the previous session key is
\* still accepted on ingress until the grace period ends, and egress
\* encryption uses only the new key.
C10_PreviousKeyAcceptedInGrace ==
    [][ /\ ( /\ GateStep
             /\ validate_key_hierarchy(key_manager)
             /\ key_manager.old_metadata.prior_state = "active"
             /\ key_manager.old_metadata.state = "grace"
             /\ now <= key_manager.old_metadata.expires_at
             /\ cr_last'.frame.key = key_manager.old_metadata.session_id
             /\ cr_last'.frame.counter > last_seen_counter
             /\ validate_timestamp(cr_last'.frame, now) )
            => cr_last'.ok
        /\ (now' = now /\ cr_last'.op = "encrypt_payload" /\ cr_last'.ok)
            => cr_last'.frame.key = key_manager'.session_key ]_vars

(***************************************************************************)
(*       The key manager started on keys left by an earlier process        *)
(*                                                                         *)
(* KeyManager.__init__ finds the root key, the session key file and the    *)
(* metadata file, and loads them: the session is as old, as used and as    *)
(* risky as the earlier process left it; _command_counter is 0 and         *)
(* _last_rotation_check is the time of the start.                          *)
(***************************************************************************)
\* What the metadata file can hold for the session: <<age, command_count,
\* risk_level>>; a new session, one at the command limit, one at high risk,
\* one in the last GRACE_PERIOD of its life, one past its expiry.
LoadedSessions ==
    { <<0, 0, "low">>,
      <<0, MAX_COMMANDS_PER_SESSION, "low">>,
      <<0, 0, "high">>,
      <<SESSION_KEY_LIFETIME - GRACE_PERIOD + 1, 0, "low">>,
      <<SESSION_KEY_LIFETIME + 1, 0, "low">> }

\* KeyManager._load_session_key and _load_metadata at time t.
load_keys(session, t) ==
    [session_key |-> 1, sessions_derived |-> 1,
     metadata |-> [state |-> "active", created_at |-> t - session[1],
                   expires_at |-> t - session[1] + SESSION_KEY_LIFETIME,
                   session_id |-> 1, command_count |-> session[2],
                   last_rotation |-> 0, risk_level |-> session[3]],
     old_metadata |-> NoOldMetadata, command_counter |-> 0,
     last_rotation_check |-> t]

InitKeys ==
    /\ now = StartTime
    /\ \E session \in LoadedSessions : key_manager = load_keys(session, StartTime)
    /\ last_seen_counter = 0
    /\ enc_counter = 0
    /\ emergency_mode = FALSE
    /\ ticks = 0
    /\ revocation_standing = FALSE
    /\ cr_last = CryptoOp("init", NoFrame, TRUE, "", FALSE)
    \* the proxy and the replay detector are idle
    /\ trusted_gcs_ip = "127.0.0.1" /\ ai_enabled = FALSE /\ stats = 0
    /\ fc_sent = <<>> /\ sec_log = <<>> /\ proc = IdleProc
    /\ seen_nonces = {} /\ nonce_queue = <<>> /\ last_valid_timestamp = 0
    /\ command_history = <<>> /\ rd_stats = 0 /\ rd_now = 0 /\ rd_last = 0
    /\ accepted_at = 0 /\ accept_count = 0 /\ max_accepted = 0
    /\ nm_counter = 0 /\ nm_issued = 0 /\ sealed = 0 /\ ae_last = 0
    /\ de_in = 0 /\ de_out = 0
    /\ inj_state = 0 /\ inj_stats = 0 /\ inj_last = 0
    /\ inf_engine = 0 /\ inf_last = 0
    /\ fd_in = 0 /\ fd_out = 0
    /\ command_timestamps = 0 /\ dos_stats = 0 /\ intent_history = 0 /\ win_log = 0
    /\ explainable_logger = 0 /\ human_log = 0 /\ decision_log = 0 /\ audit_log = 0 /\ au_now = 0
    /\ decision_engine = 0
    /\ enc_log = 0 /\ dec_log = 0 /\ restarts = 0
    /\ pipeline = 0

\* The calls that ask the key manager for the session key, and the clock.
NextKeys ==
    \/ EncryptPayload /\ UNCHANGED exceptCrypto
    \/ \E f \in Frames(key_manager, now) :
          CryptoCheck(f) /\ UNCHANGED exceptCrypto
    \/ \E d \in TickAmounts : CryptoTick(d) /\ UNCHANGED exceptCrypto

SpecKeys == InitKeys /\ [][NextKeys]_vars

\* The session in the "session" slot is past its expires_at and not revoked.
SessionExpired(km, t) ==
    km.session_key /= NoKey /\ km.metadata.state = "active" /\ t > km.metadata.expires_at

\* C11: when a frame arrives at the crypto gate while the session key is
\* expired, the gate rejects the frame and requests a rotation: a new active
\* session key is derived.
C11_ExpiredKeyRotatedAtGate ==
    [][ ( /\ GateStep
          /\ SessionExpired(key_manager, now)
          /\ cr_last'.frame.counter > last_seen_counter )
        => /\ ~cr_last'.ok
           /\ key_manager'.sessions_derived = key_manager.sessions_derived + 1
           /\ key_manager'.session_key = key_manager'.sessions_derived
           /\ key_manager'.metadata.state = "active" ]_vars

\* A step that is one call of encrypt_payload, which asks the key manager for
\* the active session key once.
EncryptStep == now' = now /\ cr_last'.op = "encrypt_payload"

\* The triggers as the specification words them: the session has lived its
\* SESSION_KEY_LIFETIME, has served MAX_COMMANDS_PER_SESSION commands, or is
\* at risk level high or critical.
TriggerMet(km, t) ==
    /\ km.session_key /= NoKey
    /\ km.metadata.state = "active"
    /\ \/ t >= km.metadata.created_at + SESSION_KEY_LIFETIME
       \/ km.metadata.command_count >= MAX_COMMANDS_PER_SESSION
       \/ km.metadata.risk_level \in {"high", "critical"}

\* The triggers as the amended claim words them: within GRACE_PERIOD of the
\* expiry or past it, MAX_COMMANDS_PER_SESSION commands served, or risk high
\* or critical.
TriggerDue(km, t) ==
    \/ t + GRACE_PERIOD > km.metadata.expires_at
    \/ km.metadata.command_count >= MAX_COMMANDS_PER_SESSION
    \/ km.metadata.risk_level = "high"
    \/ km.metadata.risk_level = "critical"

\* C12 as stated: whenever get_active_session_key is called while a rotation
\* trigger holds for the current session, no key of that session is handed
\* out: the key returned, if any, belongs to a session derived by the call.
C12_NoKeyForTriggeredSession ==
    [][ (EncryptStep /\ TriggerMet(key_manager, now) /\ cr_last'.ok)
        => /\ key_manager'.sessions_derived = key_manager.sessions_derived + 1
           /\ cr_last'.frame.key /= key_manager.session_key ]_vars

\* C12, amended: whenever get_active_session_key is called at least
\* ROTATION_CHECK_INTERVAL after the previous trigger check while a trigger
\* holds (the session is within GRACE_PERIOD of its expiry or past it, has
\* served MAX_COMMANDS_PER_SESSION commands, or is at risk high or critical),
\* the session key is rotated before a key is returned, and the key returned
\* is the key of the new session.
C12_RotatedWhenTriggerChecked ==
    [][ ( /\ EncryptStep
          /\ now - key_manager.last_rotation_check >= ROTATION_CHECK_INTERVAL
          /\ TriggerDue(key_manager, now) )
        => /\ cr_last'.ok
           /\ key_manager'.sessions_derived = key_manager.sessions_derived + 1
           /\ cr_last'.frame.key = key_manager'.sessions_derived
           /\ cr_last'.frame.key /= key_manager.session_key
           /\ key_manager'.session_key = cr_last'.frame.key
           /\ key_manager'.metadata.created_at = now
           /\ key_manager'.last_rotation_check = now ]_vars

\* encrypt_payload has just been given the key of a session that its own
\* trigger check derived from the session loaded at the start.
C12_Witness ==
    /\ cr_last.op = "encrypt_payload" /\ cr_last.ok
    /\ key_manager.sessions_derived = 2
    /\ cr_last.frame.key = 2
    /\ key_manager.old_metadata.session_id = 1
    /\ key_manager.metadata.created_at = now
    /\ key_manager.last_rotation_check = now
    /\ now >= StartTime + ROTATION_CHECK_INTERVAL
    /\ key_manager.command_counter = 1
    /\ last_seen_counter = 0
    /\ ~emergency_mode

(***************************************************************************)
(*                             NonceManager                                *)
(*                                                                         *)
(* A byte string is a sequence of numbers 0..255.  src/crypto_layer and    *)
(* src/companion_comp/crypto_layer hold the same class but for logging.    *)
(***************************************************************************)
NONCE_SIZE == 12           \* AES-GCM standard
CounterSize == 8           \* struct format ">Q": unsigned long long, big-endian
\* next_nonce calls in a run: past the first carry into the second byte.
\* struct.pack raises at counter 2^64, which no run reaches.
MaxIssued == 260

\* struct.pack(">Q", n) for 0 <= n < 2^64: most significant byte first.
RECURSIVE BigEndian(_, _)
BigEndian(n, k) ==
    IF k = 0 THEN <<>> ELSE BigEndian(n \div 256, k - 1) \o <<n % 256>>

\* A packing that keeps only the lowest byte of the counter.
pack_low_byte(n) == BigEndian(n % 256, CounterSize)

pack_Q(n) == BigEndian(n, CounterSize)

\* bytes.rjust(width, fillbyte)
rjust(b, width, fill) ==
    IF Len(b) >= width THEN b ELSE [i \in 1 .. (width - Len(b)) |-> fill] \o b

\* nonce[-8:]
last_bytes(nonce, k) ==
    IF Len(nonce) <= k THEN nonce ELSE SubSeq(nonce, Len(nonce) - k + 1, Len(nonce))

\* struct.unpack(">Q", b)[0]
RECURSIVE unpack_Q(_)
unpack_Q(b) ==
    IF Len(b) = 0 THEN 0 ELSE 256 * unpack_Q(SubSeq(b, 1, Len(b) - 1)) + b[Len(b)]

\* NonceManager.extract_counter
extract_counter(nonce) == unpack_Q(last_bytes(nonce, CounterSize))

\* NonceManager.next_nonce
NextNonce ==
    /\ nm_counter < MaxIssued
    /\ nm_counter' = nm_counter + 1
    /\ nm_issued' = Append(nm_issued, rjust(pack_Q(nm_counter + 1), NONCE_SIZE, 0))

exceptNonce == <<proxyVars, replayVars, cryptoVars, aeadVars, decisionVars,
    injectionVars,
    inferenceVars,
    floodVars,
    windowVars,
    auditVars,
    engineVars,
    restartVars,
    pipelineVars>>

\* NonceManager.__init__
InitNonce ==
    /\ nm_counter = 0
    /\ nm_issued = <<>>
    \* nothing else is running
    /\ trusted_gcs_ip = "127.0.0.1" /\ ai_enabled = FALSE /\ stats = 0
    /\ fc_sent = 0 /\ sec_log = 0 /\ proc = IdleProc
    /\ seen_nonces = {} /\ nonce_queue = <<>> /\ last_valid_timestamp = 0
    /\ command_history = <<>> /\ rd_stats = 0 /\ rd_now = 0 /\ rd_last = 0
    /\ accepted_at = 0 /\ accept_count = 0 /\ max_accepted = 0
    /\ now = 0 /\ key_manager = 0 /\ last_seen_counter = 0
    /\ enc_counter = 0 /\ emergency_mode = FALSE /\ ticks = 0
    /\ revocation_standing = FALSE /\ cr_last = 0
    /\ sealed = 0 /\ ae_last = 0
    /\ de_in = 0 /\ de_out = 0
    /\ inj_state = 0 /\ inj_stats = 0 /\ inj_last = 0
    /\ inf_engine = 0 /\ inf_last = 0
    /\ fd_in = 0 /\ fd_out = 0
    /\ command_timestamps = 0 /\ dos_stats = 0 /\ intent_history = 0 /\ win_log = 0
    /\ explainable_logger = 0 /\ human_log = 0 /\ decision_log = 0 /\ audit_log = 0 /\ au_now = 0
    /\ decision_engine = 0
    /\ enc_log = 0 /\ dec_log = 0 /\ restarts = 0
    /\ pipeline = 0

NextNonceManager ==
    \/ NextNonce /\ UNCHANGED exceptNonce

SpecNonce == InitNonce /\ [][NextNonceManager]_vars

\* The number that the bytes b[from..to] write in base 256, most significant
\* byte first.
RECURSIVE Base256(_, _, _)
Base256(b, from, to) ==
    IF to < from THEN 0 ELSE 256 * Base256(b, from, to - 1) + b[to]

\* C17: every call to issue a nonce returns a 12-byte value whose leading 4
\* bytes are zero and whose trailing 8 bytes encode, big-endian, a 64-bit
\* counter strictly greater than the counter of every nonce issued before by
\* that manager.
C17_NonceLayoutAndStrictlyIncreasing ==
    [][ nm_counter' = nm_counter + 1 =>
          LET nonce == nm_issued'[Len(nm_issued')] IN
          /\ Len(nm_issued') = Len(nm_issued) + 1
          /\ Len(nonce) = 12
          /\ \A i \in 1 .. 12 : nonce[i] \in 0 .. 255
          /\ \A i \in 1 .. 4 : nonce[i] = 0
          /\ Base256(nonce, 5, 12) = nm_counter'
          /\ \A j \in 1 .. Len(nm_issued) :
                Base256(nm_issued[j], 5, 12) < Base256(nonce, 5, 12)
          /\ extract_counter(nonce) = nm_counter' ]_vars

\* The manager has issued the first nonce whose counter does not fit in one
\* byte.
C17_Witness ==
    /\ nm_counter = 256
    /\ Len(nm_issued) = 256
    /\ nm_issued[256] = <<0, 0, 0, 0, 0, 0, 0, 0, 0, 0, 1, 0>>
    /\ nm_issued[255] = <<0, 0, 0, 0, 0, 0, 0, 0, 0, 0, 0, 255>>

(***************************************************************************)
(*          encrypt_payload and decrypt_payload on the wire format         *)
(*                                                                         *)
(* A frame is (nonce, ciphertext): the nonce is 12 bytes, the ciphertext   *)
(* the AES-GCM output, the encrypted body followed by the 16-byte tag.     *)
(* AES-GCM is the library's: the body is the plaintext XOR a keystream     *)
(* fixed by key and nonce, and the tag is a value fixed by key, nonce and  *)
(* body that no other key, nonce or body produces.                         *)
(***************************************************************************)
MaxSealed == 1             \* encrypt_payload calls in a run

Plaintexts == {<< >>, <<200, 7>>}

RECURSIVE xor_byte(_, _)
xor_byte(a, b) ==
    IF a = 0 /\ b = 0 THEN 0
    ELSE ((a + b) % 2) + 2 * xor_byte(a \div 2, b \div 2)

\* The keystream byte at position i, a stand-in for AES in counter mode.
keystream(key, nonce, i) == (31 * key + 7 * nonce[Len(nonce)] + 13 * i) % 256

\* A body transform that adds the keystream instead of XOR-ing it.
add_keystream(data, key, nonce) ==
    [i \in 1 .. Len(data) |-> (data[i] + keystream(key, nonce, i)) % 256]

\* Counter-mode encryption and decryption of the body.
xor_keystream(data, key, nonce) ==
    [i \in 1 .. Len(data) |-> xor_byte(data[i], keystream(key, nonce, i))]

\* The tag of (key, nonce, body); flipped: whether a bit of the tag was
\* changed on the wire.
gcm_tag(key, nonce, body) ==
    [key |-> key, nonce |-> nonce, body |-> body, flipped |-> FALSE]

with_tag(key, nonce, body) == [body |-> body, tag |-> gcm_tag(key, nonce, body)]

\* AESGCM(key).encrypt(nonce, payload, None)
aesgcm_encrypt(key, nonce, payload) ==
    with_tag(key, nonce, xor_keystream(payload, key, nonce))

\* A decryption that does not look at the tag.
decrypt_unauthenticated(key, nonce, ct) ==
    [err |-> "", plaintext |-> xor_keystream(ct.body, key, nonce)]

\* AESGCM(key).decrypt(nonce, ciphertext, None)
aesgcm_decrypt(key, nonce, ct) ==
    IF ct.tag = gcm_tag(key, nonce, ct.body)
    THEN [err |-> "", plaintext |-> xor_keystream(ct.body, key, nonce)]
    ELSE [err |-> InvalidTag, plaintext |-> << >>]

\* a <= b for two big-endian numbers of the same length
RECURSIVE bytes_leq(_, _)
bytes_leq(a, b) ==
    IF Len(a) = 0 THEN TRUE
    ELSE IF a[1] < b[1] THEN TRUE
    ELSE IF a[1] > b[1] THEN FALSE
    ELSE bytes_leq(Tail(a), Tail(b))

\* decryptor.decrypt_payload, lines 15-19: extract_counter(nonce) <= last_seen_counter,
\* compared on the 8 bytes so that every 64-bit counter can be compared.
nonce_is_replay(nonce, last_seen) ==
    bytes_leq(last_bytes(nonce, CounterSize), pack_Q(last_seen))

opened(km, last_seen, err, plaintext, key) ==
    [km |-> km, last_seen_counter |-> last_seen, err |-> err,
     plaintext |-> plaintext, key |-> key]

\* decryptor.decrypt_payload, lines 28-36
opened_with(g, last_seen, nonce, d) ==
    IF d.err /= "" THEN opened(g.km, last_seen, d.err, << >>, g.key)
    ELSE opened(increment_command_counter(g.km), extract_counter(nonce), "",
                d.plaintext, g.key)

\* decryptor.decrypt_payload, lines 25-48
open_with_key(g, last_seen, nonce, ct) ==
    IF g.err /= ""
    THEN opened(g.km, last_seen,
                IF ErrorWords(g.err) \cap {"expired", "revoked"} /= {}
                THEN ErrEmergency ELSE g.err,
                << >>, NoKey)
    ELSE opened_with(g, last_seen, nonce, aesgcm_decrypt(g.key, nonce, ct))

\* decryptor.decrypt_payload(nonce, ciphertext) at time t
decrypt_wire(km, last_seen, nonce, ct, t) ==
    IF nonce_is_replay(nonce, last_seen)
    THEN opened(update_risk_level(km, "high"), last_seen, ErrReplay, << >>, NoKey)
    ELSE open_with_key(get_active_session_key(km, t), last_seen, nonce, ct)

\* One bit of a byte string changed: byte 1.., bit 0..7.
flip_bit(b, byte, bit) == [b EXCEPT ![byte] = xor_byte(@, 2 ^ bit)]

NoTamper == [part |-> "none", byte |-> 0, bit |-> 0]

\* The single-bit changes of a frame: in the nonce, in the body, in the tag.
\* Every bit of the tag is alike: a tag with a bit changed is no tag of any
\* key, nonce and body.
BitFlips(frame) ==
    [part : {"nonce"}, byte : 1 .. Len(frame.nonce), bit : 0 .. 7]
        \cup [part : {"body"}, byte : 1 .. Len(frame.ct.body), bit : 0 .. 7]
        \cup {[part |-> "tag", byte |-> 0, bit |-> 0]}

\* The frame as it arrives after the change.
tampered(frame, t) ==
    IF t.part = "nonce"
    THEN [frame EXCEPT !.nonce = flip_bit(@, t.byte, t.bit)]
    ELSE IF t.part = "body"
    THEN [frame EXCEPT !.ct.body = flip_bit(@, t.byte, t.bit)]
    ELSE IF t.part = "tag"
    THEN [frame EXCEPT !.ct.tag.flipped = TRUE]
    ELSE frame

\* The record of a decrypt_payload call: which frame, which part of it was
\* changed, the outcome, and what held when the call was made: the frame as
\* sealed was above the last seen counter (was_fresh), the key on offer was
\* the key it was sealed under (same_key), the frame as it arrived was at or
\* below the last seen counter (arrived_stale).
NoOpen ==
    [index |-> 0, part |-> "none", err |-> "", plaintext |-> << >>,
     key |-> NoKey, was_fresh |-> FALSE, same_key |-> FALSE, arrived_stale |-> FALSE]

exceptAead == <<proxyVars, replayVars, nonceVars, decisionVars,
    injectionVars,
    inferenceVars,
    floodVars,
    windowVars,
    auditVars,
    engineVars,
    restartVars,
    pipelineVars>>

InitAead ==
    /\ now = StartTime
    /\ key_manager = derive_session_key(
           [session_key |-> NoKey, sessions_derived |-> 0, metadata |-> NoMetadata,
            old_metadata |-> NoOldMetadata, command_counter |-> 0,
            last_rotation_check |-> StartTime], StartTime)
    /\ last_seen_counter = 0
    /\ enc_counter = 0
    /\ emergency_mode = FALSE
    /\ ticks = 0
    /\ revocation_standing = FALSE
    /\ cr_last = CryptoOp("init", NoFrame, TRUE, "", FALSE)
    /\ sealed = << >>
    /\ ae_last = NoOpen
    \* nothing else is running
    /\ trusted_gcs_ip = "127.0.0.1" /\ ai_enabled = FALSE /\ stats = 0
    /\ fc_sent = 0 /\ sec_log = 0 /\ proc = IdleProc
    /\ seen_nonces = {} /\ nonce_queue = <<>> /\ last_valid_timestamp = 0
    /\ command_history = <<>> /\ rd_stats = 0 /\ rd_now = 0 /\ rd_last = 0
    /\ accepted_at = 0 /\ accept_count = 0 /\ max_accepted = 0
    /\ nm_counter = 0 /\ nm_issued = 0
    /\ de_in = 0 /\ de_out = 0
    /\ inj_state = 0 /\ inj_stats = 0 /\ inj_last = 0
    /\ inf_engine = 0 /\ inf_last = 0
    /\ fd_in = 0 /\ fd_out = 0
    /\ command_timestamps = 0 /\ dos_stats = 0 /\ intent_history = 0 /\ win_log = 0
    /\ explainable_logger = 0 /\ human_log = 0 /\ decision_log = 0 /\ audit_log = 0 /\ au_now = 0
    /\ decision_engine = 0
    /\ enc_log = 0 /\ dec_log = 0 /\ restarts = 0
    /\ pipeline = 0

seal_with_key(g, nonce, payload) ==
    /\ key_manager' = IF g.err = "" THEN increment_command_counter(g.km) ELSE g.km
    /\ sealed' = IF g.err /= "" THEN sealed
                 ELSE Append(sealed, [nonce |-> nonce,
                                      ct |-> aesgcm_encrypt(g.key, nonce, payload),
                                      payload |-> payload, key |-> g.key])

\* encryptor.encrypt_payload(payload)
SealPayload(payload) ==
    /\ enc_counter < MaxSealed
    /\ enc_counter' = enc_counter + 1
    /\ seal_with_key(get_active_session_key(key_manager, now),
                     rjust(pack_Q(enc_counter + 1), NONCE_SIZE, 0), payload)
    /\ key_manager'.sessions_derived <= MaxSessions
    /\ UNCHANGED <<now, ticks, last_seen_counter, emergency_mode,
                   revocation_standing, cr_last, ae_last>>

\* The session key a call of get_active_session_key would return now.
KeyOnOffer == get_active_session_key(key_manager, now).key

open_returns(d, frame, i, t) ==
    /\ key_manager' = d.km
    /\ last_seen_counter' = d.last_seen_counter
    /\ ae_last' = [index |-> i, part |-> t.part, err |-> d.err,
                   plaintext |-> d.plaintext, key |-> d.key,
                   was_fresh |-> ~nonce_is_replay(sealed[i].nonce, last_seen_counter),
                   same_key |-> KeyOnOffer = sealed[i].key,
                   arrived_stale |-> nonce_is_replay(frame.nonce, last_seen_counter)]

open_frame(frame, i, t) ==
    open_returns(decrypt_wire(key_manager, last_seen_counter, frame.nonce,
                              frame.ct, now), frame, i, t)

\* decryptor.decrypt_payload on the i-th frame sealed, changed by t on the way.
OpenFrame(i, t) ==
    /\ open_frame(tampered(sealed[i], t), i, t)
    /\ key_manager'.sessions_derived <= MaxSessions
    /\ UNCHANGED <<now, ticks, enc_counter, emergency_mode, revocation_standing,
                   cr_last, sealed>>

NextAead ==
    \/ \E payload \in Plaintexts : SealPayload(payload) /\ UNCHANGED exceptAead
    \/ \E i \in 1 .. Len(sealed) : OpenFrame(i, NoTamper) /\ UNCHANGED exceptAead
    \/ \E i \in 1 .. Len(sealed) : \E t \in BitFlips(sealed[i]) :
          OpenFrame(i, t) /\ UNCHANGED exceptAead
    \/ \E d \in TickAmounts : CryptoTick(d) /\ UNCHANGED exceptCrypto

SpecAead == InitAead /\ [][NextAead]_vars

\* A step that is one call of decrypt_payload on a sealed frame; ae_last' is
\* the call.
OpenStep == now' = now /\ enc_counter' = enc_counter /\ ae_last'.index > 0

\* The i-th sealed frame carries a counter above the last seen counter.
AboveLastSeen(i) == Base256(sealed[i].nonce, 5, 12) > last_seen_counter

\* C18 as stated: for every plaintext, if (nonce, ct) was produced by
\* encrypting it under a valid session key, then decrypting (nonce, ct) while
\* that key is the session key returns exactly the plaintext.
C18_RoundTrip ==
    [][ ( /\ OpenStep
          /\ ae_last'.part = "none"
          /\ KeyOnOffer = sealed[ae_last'.index].key )
        => /\ ae_last'.err = ""
           /\ ae_last'.plaintext = sealed[ae_last'.index].payload ]_vars

\* C18, amended: the same, for a frame whose nonce counter is above the
\* counter of the last frame decrypted; the counter then becomes the last
\* seen counter.
C18_RoundTripOfFreshFrame ==
    [][ ( /\ OpenStep
          /\ ae_last'.part = "none"
          /\ KeyOnOffer = sealed[ae_last'.index].key
          /\ AboveLastSeen(ae_last'.index) )
        => /\ ae_last'.err = ""
           /\ ae_last'.plaintext = sealed[ae_last'.index].payload
           /\ ae_last'.key = sealed[ae_last'.index].key
           /\ last_seen_counter' = Base256(sealed[ae_last'.index].nonce, 5, 12) ]_vars

\* A two-byte plaintext has just come back from its frame, whose body is not
\* the plaintext.
C18_Witness ==
    /\ ae_last.index > 0
    /\ ae_last.part = "none" /\ ae_last.was_fresh /\ ae_last.same_key
    /\ ae_last.err = ""
    /\ ae_last.plaintext = <<200, 7>>
    /\ sealed[ae_last.index].payload = <<200, 7>>
    /\ sealed[ae_last.index].ct.body /= <<200, 7>>
    /\ last_seen_counter = Base256(sealed[ae_last.index].nonce, 5, 12)

\* C19 as stated: flipping any single bit of the ciphertext or of the nonce
\* of a validly encrypted frame makes decryption fail, and the failure is
\* the tag error.
C19_BitFlipGivesTagError ==
    [][ ( /\ OpenStep
          /\ ae_last'.part /= "none"
          /\ KeyOnOffer = sealed[ae_last'.index].key
          /\ AboveLastSeen(ae_last'.index) )
        => ae_last'.err = InvalidTag ]_vars

\* C19, amended: flipping any single bit of the ciphertext or of the nonce
\* makes decryption fail and leaves the last seen counter alone; the failure
\* is the tag error, except that a frame whose nonce counter after the flip
\* is at or below the last seen counter is refused as a replay before any
\* key is fetched.
C19_BitFlipFailsTagOrReplay ==
    [][ ( /\ OpenStep
          /\ ae_last'.part /= "none"
          /\ KeyOnOffer /= NoKey )
        => /\ ae_last'.err /= ""
           /\ ae_last'.plaintext = << >>
           /\ last_seen_counter' = last_seen_counter
           /\ ae_last'.err = IF ae_last'.arrived_stale THEN ErrReplay ELSE InvalidTag
           /\ ae_last'.part \in {"body", "tag"} /\ AboveLastSeen(ae_last'.index)
                => ae_last'.err = InvalidTag ]_vars

\* A frame above the last seen counter, with one bit of its nonce flipped,
\* has just failed with the tag error under the key it was sealed with.
C19_Witness ==
    /\ ae_last.index > 0
    /\ ae_last.part = "nonce"
    /\ ae_last.was_fresh /\ ae_last.same_key /\ ~ae_last.arrived_stale
    /\ ae_last.err = InvalidTag
    /\ ae_last.key = sealed[ae_last.index].key

(***************************************************************************)
(*                  RiskProportionalDecisionEngine.decide                  *)
(*                                                                         *)
(* The engine as constructed with no configuration.  Scores, confidences   *)
(* and risks are in hundredths (0.85 is 85); a weighted sum is in          *)
(* ten-thousandths until aggregate_risk rounds it to two decimals.         *)
(***************************************************************************)
weight_crypto == 25
weight_intent == 15
weight_behavior == 20
weight_trajectory == 20
weight_ml_intent == 20
ml_confidence_threshold == 60

IntentMismatchRisk == 80       \* intent_risk when the intent does not match
LowIntentConfidence == 60      \* intent_result.confidence < 0.6 ...
LowConfidenceRisk == 60        \* ... lifts intent_risk to 0.6
NeutralMlRisk == 50            \* no ML result, or one of low confidence
GeofenceFloor == 85
AnomalyFloor == 75
CryptoFloor == 70
MlIntentFloor == 75
HighMlRisk == 80               \* ml_intent_result.intent_risk > 0.8

SeverityLowFrom == 30
SeverityMediumFrom == 50
SeverityHighFrom == 70
SeverityCriticalFrom == 90

NoMl == [present |-> FALSE, confidence |-> 0, intent_risk |-> 0]

MlResults ==
    {NoMl} \cup [present : {TRUE}, confidence : {50, 90}, intent_risk : {0, 65, 90}]

\* The arguments of decide that bear on the decision.
DecideInputs ==
    [crypto_valid : BOOLEAN,
     intent_match : BOOLEAN,
     intent_confidence : {50, 90},
     behavior_score : {0, 50, 100},
     anomaly_level : {"LOW", "HIGH"},
     trajectory_risk : {0, 50, 100},
     geofence_violation : BOOLEAN,
     ml : MlResults]

\* round(x, 2) of x ten-thousandths, in hundredths: to the nearest, ties to even
round_2(x) ==
    IF x % 100 < 50 THEN x \div 100
    ELSE IF x % 100 > 50 THEN x \div 100 + 1
    ELSE IF (x \div 100) % 2 = 0 THEN x \div 100
    ELSE x \div 100 + 1

Min(a, b) == IF a <= b THEN a ELSE b

\* An intent risk that low confidence pulls towards 0.6 from above as well.
intent_risk_capped(in) ==
    IF in.intent_confidence < LowIntentConfidence
    THEN LowConfidenceRisk
    ELSE IF in.intent_match THEN 0 ELSE IntentMismatchRisk

\* aggregate_risk, lines 132-137
intent_risk(in) ==
    IF in.intent_confidence < LowIntentConfidence
    THEN Max(IF in.intent_match THEN 0 ELSE IntentMismatchRisk, LowConfidenceRisk)
    ELSE IF in.intent_match THEN 0 ELSE IntentMismatchRisk

\* aggregate_risk, lines 145-155
ml_intent_component(in) ==
    IF in.ml.present /\ in.ml.confidence >= ml_confidence_threshold
    THEN in.ml.intent_risk ELSE NeutralMlRisk

\* aggregate_risk, lines 158-164: the weighted sum, in ten-thousandths
weighted_risk(in) ==
    weight_crypto * (IF in.crypto_valid THEN 0 ELSE 100)
        + weight_intent * intent_risk(in)
        + weight_behavior * in.behavior_score
        + weight_trajectory * in.trajectory_risk
        + weight_ml_intent * ml_intent_component(in)

\* An override that caps the risk at the floor instead of lifting it.
at_most(total, applies, floor) == IF applies THEN Min(total, 100 * floor) ELSE total

at_least(total, applies, floor) == IF applies THEN Max(total, 100 * floor) ELSE total

\* The overrides without the floor for a failed crypto validation.
OverridesWithoutCryptoFloor(total, in) ==
    at_least(
      at_least(
        at_least(total, in.geofence_violation, GeofenceFloor),
        in.anomaly_level = "HIGH", AnomalyFloor),
      /\ in.ml.present
      /\ in.ml.confidence >= ml_confidence_threshold
      /\ in.ml.intent_risk > HighMlRisk,
      MlIntentFloor)

\* aggregate_risk, lines 166-181: the emergency overrides
emergency_overrides(total, in) ==
    at_least(
      at_least(
        at_least(
          at_least(total, in.geofence_violation, GeofenceFloor),
          in.anomaly_level = "HIGH", AnomalyFloor),
        ~in.crypto_valid, CryptoFloor),
      /\ in.ml.present
      /\ in.ml.confidence >= ml_confidence_threshold
      /\ in.ml.intent_risk > HighMlRisk,
      MlIntentFloor)

\* RiskProportionalDecisionEngine.aggregate_risk, in hundredths
aggregate_risk(in) ==
    round_2(Min(10000, emergency_overrides(weighted_risk(in), in)))

\* A severity scale on which 0.90 itself is still HIGH.
severity_critical_above(risk) ==
    IF risk < SeverityLowFrom THEN "NONE"
    ELSE IF risk < SeverityMediumFrom THEN "LOW"
    ELSE IF risk < SeverityHighFrom THEN "MEDIUM"
    ELSE IF risk <= SeverityCriticalFrom THEN "HIGH"
    ELSE "CRITICAL"

\* RiskProportionalDecisionEngine.determine_severity
determine_severity(risk) ==
    IF risk < SeverityLowFrom THEN "NONE"
    ELSE IF risk < SeverityMediumFrom THEN "LOW"
    ELSE IF risk < SeverityHighFrom THEN "MEDIUM"
    ELSE IF risk < SeverityCriticalFrom THEN "HIGH"
    ELSE "CRITICAL"

\* RiskProportionalDecisionEngine._make_decision: the decision state
make_decision(severity) ==
    IF severity = "CRITICAL" THEN "RTL"
    ELSE IF severity = "HIGH" THEN "HOLD"
    ELSE IF severity = "MEDIUM" THEN "CONSTRAIN"
    ELSE "ACCEPT"

decision_result(total_risk, severity) ==
    [decided |-> TRUE, risk_score |-> total_risk, severity |-> severity,
     decision |-> make_decision(severity)]

\* RiskProportionalDecisionEngine.decide
decide(in) == decision_result(aggregate_risk(in), determine_severity(aggregate_risk(in)))

NoDecision == [decided |-> FALSE, risk_score |-> 0, severity |-> "NONE", decision |-> "ACCEPT"]

exceptDecision == <<proxyVars, replayVars, cryptoVars, nonceVars, aeadVars,
    injectionVars,
    inferenceVars,
    floodVars,
    windowVars,
    auditVars,
    engineVars,
    restartVars,
    pipelineVars>>

InitDecision ==
    /\ de_in \in DecideInputs
    /\ de_out = NoDecision
    \* nothing else is running
    /\ trusted_gcs_ip = "127.0.0.1" /\ ai_enabled = FALSE /\ stats = 0
    /\ fc_sent = 0 /\ sec_log = 0 /\ proc = IdleProc
    /\ seen_nonces = {} /\ nonce_queue = <<>> /\ last_valid_timestamp = 0
    /\ command_history = <<>> /\ rd_stats = 0 /\ rd_now = 0 /\ rd_last = 0
    /\ accepted_at = 0 /\ accept_count = 0 /\ max_accepted = 0
    /\ now = 0 /\ key_manager = 0 /\ last_seen_counter = 0
    /\ enc_counter = 0 /\ emergency_mode = FALSE /\ ticks = 0
    /\ revocation_standing = FALSE /\ cr_last = 0
    /\ nm_counter = 0 /\ nm_issued = 0 /\ sealed = 0 /\ ae_last = 0
    /\ inj_state = 0 /\ inj_stats = 0 /\ inj_last = 0
    /\ inf_engine = 0 /\ inf_last = 0
    /\ fd_in = 0 /\ fd_out = 0
    /\ command_timestamps = 0 /\ dos_stats = 0 /\ intent_history = 0 /\ win_log = 0
    /\ explainable_logger = 0 /\ human_log = 0 /\ decision_log = 0 /\ audit_log = 0 /\ au_now = 0
    /\ decision_engine = 0
    /\ enc_log = 0 /\ dec_log = 0 /\ restarts = 0
    /\ pipeline = 0

\* One call of decide on the drawn arguments.
Decide ==
    /\ ~de_out.decided
    /\ de_out' = decide(de_in)
    /\ UNCHANGED de_in

NextDecision ==
    \/ Decide /\ UNCHANGED exceptDecision

SpecDecision == InitDecision /\ [][NextDecision]_vars

\* C20: decide returns RTL when total risk is in [0.9, 1.0] (critical), HOLD
\* when in [0.7, 0.9) (high), CONSTRAIN when in [0.5, 0.7) (medium), and
\* ACCEPT when below 0.5 (low or none).
C20_DecisionByRiskBand ==
    de_out.decided =>
        /\ de_out.risk_score \in 0 .. 100
        /\ (90 <= de_out.risk_score /\ de_out.risk_score <= 100)
              => (de_out.decision = "RTL" /\ de_out.severity = "CRITICAL")
        /\ (70 <= de_out.risk_score /\ de_out.risk_score < 90)
              => (de_out.decision = "HOLD" /\ de_out.severity = "HIGH")
        /\ (50 <= de_out.risk_score /\ de_out.risk_score < 70)
              => (de_out.decision = "CONSTRAIN" /\ de_out.severity = "MEDIUM")
        /\ de_out.risk_score < 50
              => (de_out.decision = "ACCEPT" /\ de_out.severity \in {"LOW", "NONE"})

\* decide has returned RTL at a total risk of exactly 0.90.
C20_Witness ==
    /\ de_out.decided
    /\ de_out.risk_score = 90
    /\ de_out.decision = "RTL"

\* The ML result is a high-confidence high-risk intent.
MlHighRisk(in) == in.ml.present /\ in.ml.confidence >= 60 /\ in.ml.intent_risk > 80

RiskierInputs(in) ==
    {[in EXCEPT !.crypto_valid = FALSE], [in EXCEPT !.intent_match = FALSE],
     [in EXCEPT !.anomaly_level = "HIGH"], [in EXCEPT !.geofence_violation = TRUE]}
      \cup {[in EXCEPT !.intent_confidence = c] : c \in {c \in {50, 90} : c < in.intent_confidence}}
      \cup {[in EXCEPT !.behavior_score = b] : b \in {b \in {0, 50, 100} : b > in.behavior_score}}
      \cup {[in EXCEPT !.trajectory_risk = r] : r \in {r \in {0, 50, 100} : r > in.trajectory_risk}}
      \cup {[in EXCEPT !.ml.intent_risk = r] :
               r \in {r \in {0, 65, 90} : in.ml.present /\ r > in.ml.intent_risk}}

\* The inputs that differ from in only by a higher, or only by a lower, ML
\* confidence.
MlSurer(in) ==
    {[in EXCEPT !.ml.confidence = c] : c \in {c \in {50, 90} : in.ml.present /\ c > in.ml.confidence}}

MlLessSure(in) ==
    {[in EXCEPT !.ml.confidence = c] : c \in {c \in {50, 90} : in.ml.present /\ c < in.ml.confidence}}

NeverLower(in, changed) == \A in2 \in changed : aggregate_risk(in2) >= aggregate_risk(in)

\* C22 as stated: total risk is monotone in each input, ML confidence
\* included: there is a direction of ML confidence (up, or down) in which a
\* change never decreases total risk.
C22_MonotoneInEveryInput ==
    de_out.decided =>
        /\ NeverLower(de_in, RiskierInputs(de_in))
        /\ \/ \A in \in DecideInputs : NeverLower(in, MlSurer(in))
           \/ \A in \in DecideInputs : NeverLower(in, MlLessSure(in))

\* C22, amended: total risk never decreases when one of crypto validity,
\* rule-intent match, rule-intent confidence, behaviour score, anomaly level,
\* trajectory risk, geofence prediction or ML intent risk changes in its
\* risk-increasing direction.  In ML confidence it is not monotone: a higher
\* ML confidence never decreases total risk only when the ML intent risk is
\* at least the neutral 0.5, a lower one only when it is at most 0.5.
C22_MonotoneExceptMlConfidence ==
    de_out.decided =>
        /\ \A in2 \in RiskierInputs(de_in) : aggregate_risk(in2) >= de_out.risk_score
        /\ de_in.ml.intent_risk >= 50
              => \A in2 \in MlSurer(de_in) : aggregate_risk(in2) >= de_out.risk_score
        /\ de_in.ml.intent_risk <= 50
              => \A in2 \in MlLessSure(de_in) : aggregate_risk(in2) >= de_out.risk_score

\* A decision on a matching intent held with high confidence, where a
\* lower rule-intent confidence and an invalid crypto result would both give
\* a strictly higher total risk, and a surer ML result a strictly lower one.
C22_Witness ==
    /\ de_out.decided
    /\ de_in.crypto_valid /\ de_in.intent_match /\ de_in.intent_confidence = 90
    /\ de_in.ml.present /\ de_in.ml.confidence = 50 /\ de_in.ml.intent_risk = 0
    /\ aggregate_risk([de_in EXCEPT !.intent_confidence = 50]) > de_out.risk_score
    /\ aggregate_risk([de_in EXCEPT !.crypto_valid = FALSE]) > de_out.risk_score
    /\ aggregate_risk([de_in EXCEPT !.ml.confidence = 90]) < de_out.risk_score

(***************************************************************************)
(*      InjectionDetector (src/ai_layer/attack_detection)                  *)
(*                                                                         *)
(* Risk scores and confidences are in hundredths.  A parameter value is   *)
(* a number or a string; the detector's altitude and armed fields are     *)
(* written by update_state and read by no check, and are left out.        *)
(***************************************************************************)

\* check_command calls in a run
MaxChecks == 1

CommandTypes ==
    {"NAVIGATION", "MODE_CHANGE", "ARM_DISARM", "TAKEOFF_LAND", "MISSION_UPLOAD",
     "PARAMETER_SET", "EMERGENCY", "TELEMETRY_REQUEST", "UNKNOWN"}

FlightStates ==
    {"DISARMED", "ARMED_GROUND", "TAKING_OFF", "IN_FLIGHT", "LANDING", "EMERGENCY"}

\* self.authorized_commands
authorized_commands(state) ==
    CASE state = "DISARMED" ->
           {"ARM_DISARM", "MODE_CHANGE", "PARAMETER_SET", "MISSION_UPLOAD",
            "TELEMETRY_REQUEST"}
      [] state = "ARMED_GROUND" ->
           {"ARM_DISARM", "TAKEOFF_LAND", "MODE_CHANGE", "EMERGENCY",
            "TELEMETRY_REQUEST"}
      [] state = "TAKING_OFF" ->
           {"NAVIGATION", "MODE_CHANGE", "EMERGENCY", "TELEMETRY_REQUEST"}
      [] state = "IN_FLIGHT" ->
           {"NAVIGATION", "MODE_CHANGE", "TAKEOFF_LAND", "EMERGENCY",
            "MISSION_UPLOAD", "TELEMETRY_REQUEST"}
      [] state = "LANDING" ->
           {"NAVIGATION", "TAKEOFF_LAND", "EMERGENCY", "TELEMETRY_REQUEST"}
      [] state = "EMERGENCY" ->
           {"EMERGENCY", "TAKEOFF_LAND", "ARM_DISARM", "TELEMETRY_REQUEST"}

\* self.parameter_bounds: (min, max) per named parameter
BoundedParameters ==
    {"altitude", "velocity", "latitude", "longitude", "yaw", "pitch", "roll",
     "throttle"}

parameter_bounds(name) ==
    CASE name = "altitude" -> <<0, 150>>
      [] name = "velocity" -> <<0, 25>>
      [] name = "latitude" -> <<-90, 90>>
      [] name = "longitude" -> <<-180, 180>>
      [] name = "yaw" -> <<-180, 180>>
      [] name = "pitch" -> <<-90, 90>>
      [] name = "roll" -> <<-45, 45>>
      [] name = "throttle" -> <<0, 1>>

\* Parameter values: a number, or a string that float() does not accept.
Num(n) == [numeric |-> TRUE, n |-> n, s |-> ""]
Str(s) == [numeric |-> FALSE, n |-> 0, s |-> s]

\* The parameter maps commands carry in the model.
ParameterMaps ==
    { <<>>,
      [altitude |-> Num(100)],
      [altitude |-> Num(500)],
      [altitude |-> Num(500), velocity |-> Num(30)],
      [altitude |-> Str("high")],
      [arm |-> Num(0)],
      [arm |-> Num(1)],
      [command |-> Str("takeoff")] }

\* ML risk scores handed to check_command (its default is 0.0)
MlRiskScores == {0, 80}

CheckInputs ==
    [command_type : CommandTypes, parameters : ParameterMaps,
     source_authenticated : BOOLEAN, ml_risk_score : MlRiskScores]

\* dict.get(name, default)
param_get(parameters, name, default) ==
    IF name \in DOMAIN parameters THEN parameters[name] ELSE default

\* str.upper on the strings of the model
upper(s) == IF s = "takeoff" THEN "TAKEOFF" ELSE s

\* InjectionDetector._check_authorization
check_authorization(state, command_type) ==
    command_type \notin authorized_commands(state.current_state) /\ command_type # "UNKNOWN"

\* _check_parameters: the parameters whose value is outside its bounds
out_of_bounds(parameters) ==
    {name \in DOMAIN parameters \cap BoundedParameters :
        /\ parameters[name].numeric
        /\ \/ parameters[name].n < parameter_bounds(name)[1]
           \/ parameters[name].n > parameter_bounds(name)[2]}

\* _check_parameters: the bounded parameters whose value float() rejects
invalid_type(parameters) ==
    {name \in DOMAIN parameters \cap BoundedParameters : ~parameters[name].numeric}

\* _check_parameters: the violations list, one entry per offending parameter
check_parameters(parameters) == out_of_bounds(parameters) \cup invalid_type(parameters)

\* _check_context, first rule: a disarm while in flight
disarm_in_flight(state, command_type, parameters) ==
    /\ command_type = "ARM_DISARM"
    /\ state.current_state = "IN_FLIGHT"
    /\ param_get(parameters, "arm", Num(1)) = Num(0)

\* _check_context, second rule
mode_change_during_landing(state, command_type) ==
    command_type = "MODE_CHANGE" /\ state.current_state = "LANDING"

\* _check_context, third rule
takeoff_while_airborne(state, command_type, parameters) ==
    /\ command_type = "TAKEOFF_LAND"
    /\ state.current_state = "IN_FLIGHT"
    /\ upper(param_get(parameters, "command", Str("")).s) = "TAKEOFF"

\* _check_context, the three rules that count a context violation
counted_context_violation(state, command_type, parameters) ==
    \/ disarm_in_flight(state, command_type, parameters)
    \/ mode_change_during_landing(state, command_type)
    \/ takeoff_while_airborne(state, command_type, parameters)

\* InjectionDetector._check_context
check_context(state, command_type, parameters) ==
    \/ counted_context_violation(state, command_type, parameters)
    \/ command_type = "MISSION_UPLOAD" /\ state.mission_active

CriticalCommands == {"ARM_DISARM", "MODE_CHANGE", "PARAMETER_SET", "EMERGENCY"}

\* InjectionDetector._check_privilege_escalation
check_privilege_escalation(command_type, authenticated) ==
    command_type \in CriticalCommands /\ ~authenticated

\* _aggregate_detection: the contribution of one layer to the risk score
risk_if(hit, weight) == IF hit THEN weight ELSE 0

\* _aggregate_detection: the risk score
injection_risk(unauthorized, param_anomaly, context_violation, privilege_esc, semantic_anomaly, ml_risk) ==
    Min(risk_if(unauthorized, 30) + risk_if(param_anomaly, 20)
          + risk_if(context_violation, 30) + risk_if(privilege_esc, 40)
          + risk_if(semantic_anomaly, (ml_risk * 30) \div 100),
        100)

\* _aggregate_detection: the first rule that matches decides
\* <<is_injection, confidence, detection_method>>
injection_verdict(unauthorized, param_anomaly, violations, context_violation, privilege_esc, semantic_anomaly) ==
    IF privilege_esc \/ (context_violation /\ unauthorized)
    THEN <<TRUE, 95, "privilege_context">>
    ELSE IF context_violation THEN <<TRUE, 85, "context">>
    ELSE IF unauthorized /\ param_anomaly THEN <<TRUE, 80, "unauthorized_params">>
    ELSE IF param_anomaly /\ violations >= 2 THEN <<TRUE, 70, "parameters">>
    ELSE IF unauthorized THEN <<TRUE, 65, "unauthorized">>
    ELSE IF semantic_anomaly THEN <<TRUE, 60, "semantic">>
    ELSE <<FALSE, 0, "none">>

\* The InjectionMetrics check_command builds from the five layers.
injection_metrics(unauthorized, violations, context_violation, privilege_esc, semantic_anomaly, ml_risk) ==
    [is_injection |->
        injection_verdict(unauthorized, violations > 0, violations,
                          context_violation, privilege_esc, semantic_anomaly)[1],
     confidence |->
        injection_verdict(unauthorized, violations > 0, violations,
                          context_violation, privilege_esc, semantic_anomaly)[2],
     detection_method |->
        injection_verdict(unauthorized, violations > 0, violations,
                          context_violation, privilege_esc, semantic_anomaly)[3],
     unauthorized_command |-> unauthorized,
     parameter_anomaly |-> violations > 0,
     context_violation |-> context_violation,
     privilege_escalation |-> privilege_esc,
     semantic_anomaly |-> semantic_anomaly,
     risk_score |->
        injection_risk(unauthorized, violations > 0, context_violation,
                       privilege_esc, semantic_anomaly, ml_risk)]

\* InjectionDetector.check_command: the InjectionMetrics returned
check_command_metrics(state, in) ==
    injection_metrics(
        check_authorization(state, in.command_type),
        Cardinality(check_parameters(in.parameters)),
        check_context(state, in.command_type, in.parameters),
        check_privilege_escalation(in.command_type, in.source_authenticated),
        in.ml_risk_score > 70,
        in.ml_risk_score)

count_if(hit) == IF hit THEN 1 ELSE 0

\* InjectionDetector.check_command: the statistics after the call
check_command_stats(st, state, in, metrics) ==
    [total_commands |-> st.total_commands + 1,
     detected_injections |-> st.detected_injections + count_if(metrics.is_injection),
     unauthorized_count |-> st.unauthorized_count + count_if(metrics.unauthorized_command),
     parameter_violations |->
        st.parameter_violations + Cardinality(out_of_bounds(in.parameters)),
     context_violations |->
        st.context_violations
          + count_if(counted_context_violation(state, in.command_type, in.parameters)),
     privilege_violations |->
        st.privilege_violations + count_if(metrics.privilege_escalation)]

ZeroInjectionStats ==
    [total_commands |-> 0, detected_injections |-> 0, unauthorized_count |-> 0,
     parameter_violations |-> 0, context_violations |-> 0, privilege_violations |-> 0]

\* InjectionDetector.__init__ and reset
InitialFlightState == [current_state |-> "DISARMED", mission_active |-> FALSE]

NoInjectionCheck ==
    [checked |-> FALSE, in |-> [command_type |-> "UNKNOWN", parameters |-> <<>>,
                                source_authenticated |-> TRUE, ml_risk_score |-> 0],
     state |-> InitialFlightState,
     metrics |-> injection_metrics(FALSE, 0, FALSE, FALSE, FALSE, 0)]

exceptInjection == <<proxyVars, replayVars, cryptoVars, nonceVars, aeadVars,
    decisionVars,
    inferenceVars,
    floodVars,
    windowVars,
    auditVars,
    engineVars,
    restartVars,
    pipelineVars>>

InitInjection ==
    /\ inj_state = InitialFlightState
    /\ inj_stats = ZeroInjectionStats
    /\ inj_last = NoInjectionCheck
    \* nothing else is running
    /\ trusted_gcs_ip = "127.0.0.1" /\ ai_enabled = FALSE /\ stats = 0
    /\ fc_sent = 0 /\ sec_log = 0 /\ proc = IdleProc
    /\ seen_nonces = {} /\ nonce_queue = <<>> /\ last_valid_timestamp = 0
    /\ command_history = <<>> /\ rd_stats = 0 /\ rd_now = 0 /\ rd_last = 0
    /\ accepted_at = 0 /\ accept_count = 0 /\ max_accepted = 0
    /\ now = 0 /\ key_manager = 0 /\ last_seen_counter = 0 /\ enc_counter = 0
    /\ emergency_mode = FALSE /\ ticks = 0 /\ revocation_standing = FALSE
    /\ cr_last = 0
    /\ nm_counter = 0 /\ nm_issued = 0 /\ sealed = 0 /\ ae_last = 0
    /\ de_in = 0 /\ de_out = 0
    /\ inf_engine = 0 /\ inf_last = 0
    /\ fd_in = 0 /\ fd_out = 0
    /\ command_timestamps = 0 /\ dos_stats = 0 /\ intent_history = 0 /\ win_log = 0
    /\ explainable_logger = 0 /\ human_log = 0 /\ decision_log = 0 /\ audit_log = 0 /\ au_now = 0
    /\ decision_engine = 0
    /\ enc_log = 0 /\ dec_log = 0 /\ restarts = 0
    /\ pipeline = 0

\* InjectionDetector.update_state(state=..., mission_active=...)
UpdateState(flight_state, active) ==
    /\ inj_state' = [current_state |-> flight_state, mission_active |-> active]
    /\ UNCHANGED <<inj_stats, inj_last>>

\* InjectionDetector.check_command
CheckInjection(in) ==
    /\ inj_stats.total_commands < MaxChecks
    /\ inj_last' = [checked |-> TRUE, in |-> in, state |-> inj_state,
                    metrics |-> check_command_metrics(inj_state, in)]
    /\ inj_stats' = check_command_stats(inj_stats, inj_state, in,
                                        check_command_metrics(inj_state, in))
    /\ UNCHANGED inj_state

\* InjectionDetector.reset
ResetInjection ==
    /\ inj_state' = InitialFlightState
    /\ inj_stats' = ZeroInjectionStats
    /\ inj_last' = NoInjectionCheck

NextInjection ==
    \/ \E s \in FlightStates, a \in BOOLEAN : UpdateState(s, a) /\ UNCHANGED exceptInjection
    \/ \E in \in CheckInputs : CheckInjection(in) /\ UNCHANGED exceptInjection
    \/ ResetInjection /\ UNCHANGED exceptInjection

SpecInjection == InitInjection /\ [][NextInjection]_vars

\* The decision the pipeline's engine gives a command from the detector's
\* risk: the severity band of the risk, then the decision state of the band.
pipeline_decision(metrics) == make_decision(determine_severity(metrics.risk_score))

\* The last check was of a navigation command with altitude=500, in flight.
ExtremeAltitudeInFlight ==
    /\ inj_last.checked
    /\ inj_last.in.command_type = "NAVIGATION"
    /\ inj_last.in.parameters = [altitude |-> Num(500)]
    /\ inj_last.state.current_state = "IN_FLIGHT"

DisarmInFlight ==
    /\ inj_last.checked
    /\ inj_last.in.command_type = "ARM_DISARM"
    /\ inj_last.in.parameters = [arm |-> Num(0)]
    /\ inj_last.in.source_authenticated
    /\ inj_last.state.current_state = "IN_FLIGHT"

MaxInfers == 2

\* __init__ default
confidence_threshold == 60

\* _fallback_result: the risk reported when none is passed in
FallbackRisk == 80

\* What _load_models leaves behind: both boosters and the feature names; no
\* file found (nothing assigned); the metadata read failing after
\* feature_names was assigned (the boosters are set back to None).
LoadOutcomes ==
    { [models |-> TRUE, feature_names |-> TRUE],
      [models |-> FALSE, feature_names |-> FALSE],
      [models |-> FALSE, feature_names |-> TRUE] }

\* The argument of infer: None, an array of another length, a 37-vector
FeatureVectors == {"none", "short", "ok"}

\* What the models do on the vector: the classifier's top probability, the
\* regressor's raw output, or an exception out of predict or the explainer.
ModelOutputs ==
    [confidence : {30, 60, 90}, raw_risk : {-10, 0, 30, 120}, raises : BOOLEAN]

\* np.clip(risk_score, 0.0, 1.0)
clip(x) == IF x < 0 THEN 0 ELSE IF x > 100 THEN 100 ELSE x

\* IntentInferenceEngine._fallback_result; partial_risk is -1 when not passed
fallback_result(partial_risk) ==
    [returned |-> TRUE, model_status |-> "FALLBACK", confidence |-> 0,
     intent_risk |-> IF partial_risk > 0 THEN partial_risk ELSE FallbackRisk]

\* infer leaves by an exception instead of returning a result
RaisedTypeError ==
    [returned |-> FALSE, model_status |-> "TypeError", confidence |-> 0, intent_risk |-> 0]

\* infer, lines 206-243: the result of a confident prediction
ok_result(out) ==
    [returned |-> TRUE, model_status |-> "OK", confidence |-> out.confidence,
     intent_risk |-> clip(out.raw_risk)]

\* infer, lines 188-243: the try block around the two predictions
predict(out) ==
    IF out.raises THEN fallback_result(-1)
    ELSE IF out.confidence < confidence_threshold THEN fallback_result(clip(out.raw_risk))
    ELSE ok_result(out)

\* IntentInferenceEngine.infer
infer(engine, feature_vector, out) ==
    IF feature_vector = "none" THEN fallback_result(-1)
    ELSE IF ~engine.feature_names THEN RaisedTypeError   \* len(None), outside the try
    ELSE IF feature_vector = "short" THEN fallback_result(-1)
    ELSE IF ~engine.models THEN fallback_result(-1)
    ELSE predict(out)

\* infer: the statistics after the call
infer_counts(engine, result) ==
    [engine EXCEPT
       !.inference_count = @ + (IF result.model_status = "OK" THEN 1 ELSE 0),
       !.fallback_count = @ + (IF result.model_status = "FALLBACK" THEN 1 ELSE 0)]

NoInfer ==
    [called |-> FALSE, feature_vector |-> "none",
     out |-> [confidence |-> 90, raw_risk |-> 0, raises |-> FALSE],
     result |-> RaisedTypeError]

exceptInference == <<proxyVars, replayVars, cryptoVars, nonceVars, aeadVars,
    decisionVars, injectionVars,
    floodVars,
    windowVars,
    auditVars,
    engineVars,
    restartVars,
    pipelineVars>>

InitInference ==
    /\ inf_engine \in {[models |-> l.models, feature_names |-> l.feature_names,
                        inference_count |-> 0, fallback_count |-> 0] : l \in LoadOutcomes}
    /\ inf_last = NoInfer
    \* nothing else is running
    /\ trusted_gcs_ip = "127.0.0.1" /\ ai_enabled = FALSE /\ stats = 0
    /\ fc_sent = 0 /\ sec_log = 0 /\ proc = IdleProc
    /\ seen_nonces = {} /\ nonce_queue = <<>> /\ last_valid_timestamp = 0
    /\ command_history = <<>> /\ rd_stats = 0 /\ rd_now = 0 /\ rd_last = 0
    /\ accepted_at = 0 /\ accept_count = 0 /\ max_accepted = 0
    /\ now = 0 /\ key_manager = 0 /\ last_seen_counter = 0 /\ enc_counter = 0
    /\ emergency_mode = FALSE /\ ticks = 0 /\ revocation_standing = FALSE
    /\ cr_last = 0
    /\ nm_counter = 0 /\ nm_issued = 0
    /\ sealed = 0 /\ ae_last = 0
    /\ de_in = 0 /\ de_out = 0
    /\ inj_state = 0 /\ inj_stats = 0 /\ inj_last = 0
    /\ fd_in = 0 /\ fd_out = 0
    /\ command_timestamps = 0 /\ dos_stats = 0 /\ intent_history = 0 /\ win_log = 0
    /\ explainable_logger = 0 /\ human_log = 0 /\ decision_log = 0 /\ audit_log = 0 /\ au_now = 0
    /\ decision_engine = 0
    /\ enc_log = 0 /\ dec_log = 0 /\ restarts = 0
    /\ pipeline = 0

\* IntentInferenceEngine.infer
Infer(feature_vector, out) ==
    /\ inf_engine.inference_count + inf_engine.fallback_count < MaxInfers
    /\ inf_last' = [called |-> TRUE, feature_vector |-> feature_vector, out |-> out,
                    result |-> infer(inf_engine, feature_vector, out)]
    /\ inf_engine' = infer_counts(inf_engine, infer(inf_engine, feature_vector, out))

NextInference ==
    \/ \E fv \in FeatureVectors, out \in ModelOutputs :
          Infer(fv, out) /\ UNCHANGED exceptInference

SpecInference == InitInference /\ [][NextInference]_vars

\* The engine is unavailable for the last call: no feature vector, models
\* not loaded, or an exception during inference.
EngineUnavailable ==
    \/ inf_last.feature_vector = "none"
    \/ ~inf_engine.models
    \/ inf_last.feature_vector = "ok" /\ inf_engine.models /\ inf_last.out.raises

\* The models ran on the last call and the classifier's confidence is below 0.6.
LowConfidence ==
    /\ inf_last.feature_vector = "ok" /\ inf_engine.models /\ ~inf_last.out.raises
    /\ inf_last.out.confidence < 60

\* C25: whenever the ML engine's confidence is below 0.6 or the engine is
\* unavailable (no feature vector, models not loaded, inference exception),
\* infer returns a fallback result whose risk is exactly 0.8 and whose
\* confidence is exactly 0.
C25_FallbackIsConservative ==
    inf_last.called /\ (EngineUnavailable \/ LowConfidence) =>
        /\ inf_last.result.returned
        /\ inf_last.result.model_status = "FALLBACK"
        /\ inf_last.result.intent_risk = 80
        /\ inf_last.result.confidence = 0

\* The intent analysis of the message last handled raised an exception.
DetectorFaulted ==
    /\ proc.pc \in {"loop", "done"}
    /\ proc.n_msgs >= 1
    /\ proc.cur.intent = "raises"

\* C26: if a detector raises a fault while a command is being processed, the
\* detector's contribution for that command is a conservative high-risk
\* signal, not a pass (the command is not approved on the strength of the
\* faulted check), and processing continues with that command and later ones.
C26_DetectorFaultIsNotAPass ==
    DetectorFaulted =>
        /\ proc.cur.verdict # "accept"
        /\ proc.pc = "done" => proc.sent = 0

\* The send of the datagram last handled failed with an I/O error.
SendFailed == proc.send_errors > 0

\* C27 as stated: when sending an approved datagram to the flight controller
\* fails with an I/O error, the gateway retries the send exactly once before
\* the datagram is logged and dropped.
C27_FailedSendRetriedOnce ==
    SendFailed => proc.attempts = 2

\* C27, amended: when sending an approved datagram to the flight controller
\* fails with an I/O error, the gateway has made a single send attempt; the
\* failure is logged once, the datagram is dropped and counted neither
\* forwarded nor blocked, and the gateway is back at its receive loop.
C27_FailedSendLoggedAndDropped ==
    SendFailed =>
        /\ proc.attempts = 1
        /\ proc.send_errors = 1
        /\ proc.sent = 0
        /\ proc.pc = "done"
        /\ fc_sent = stats.total_forwarded
        /\ stats.total_forwarded + stats.total_blocked < stats.total_received

\* The sends of two datagrams in a row failed: the first is counted neither
\* forwarded nor blocked, and the second was processed up to its own send.
C27_Witness ==
    /\ SendFailed
    /\ proc.all_forwarded /\ proc.attempts = 1
    /\ stats.total_received = 2
    /\ stats.total_blocked = 0
    /\ stats.total_forwarded = 0

(***************************************************************************)
(*   DoSDetector._detect_dos (src/ai_layer/attack_detection)               *)
(*                                                                         *)
(* Rates are in tenths of a command per second, scores and confidences    *)
(* in hundredths.                                                          *)
(***************************************************************************)

\* DoSDetector.__init__: attack_threshold, by default 20.0 commands per second
AttackThresholds == {100, 200}

\* The inputs of _detect_dos: values on and next to each threshold it tests
DetectInputs ==
    [rate : {0, 74, 75, 99, 100, 149, 150, 199, 200, 500},
     burst : {0, 49, 50, 79, 80, 100},
     sustained : {0, 49, 50, 69, 70, 100},
     attack_threshold : AttackThresholds]

\* self.attack_threshold * 0.75
elevated_threshold(attack_threshold) == (attack_threshold * 75) \div 100

\* A _detect_dos that tests the medium burst before the two sustained rules.
BurstRulesFirst(rate, burst, sustained, attack_threshold) ==
    IF burst >= 80 THEN <<TRUE, 95>>
    ELSE IF burst >= 50 THEN <<TRUE, 60>>
    ELSE IF sustained >= 70 /\ rate >= attack_threshold THEN <<TRUE, 90>>
    ELSE IF sustained >= 50 /\ rate >= elevated_threshold(attack_threshold)
    THEN <<TRUE, 75>>
    ELSE <<FALSE, 0>>

\* DoSDetector._detect_dos: <<is_attack, confidence>>
detect_dos(rate, burst, sustained, attack_threshold) ==
    IF burst >= 80 THEN <<TRUE, 95>>
    ELSE IF sustained >= 70 /\ rate >= attack_threshold THEN <<TRUE, 90>>
    ELSE IF sustained >= 50 /\ rate >= elevated_threshold(attack_threshold)
    THEN <<TRUE, 75>>
    ELSE IF burst >= 50 THEN <<TRUE, 60>>
    ELSE <<FALSE, 0>>

NoDetection == [done |-> FALSE, is_dos_attack |-> FALSE, confidence |-> 0]

exceptFlood == <<proxyVars, replayVars, cryptoVars, nonceVars, aeadVars,
    decisionVars, injectionVars, inferenceVars, windowVars,
    auditVars,
    engineVars,
    restartVars,
    pipelineVars>>

InitFlood ==
    /\ fd_in \in DetectInputs
    /\ fd_out = NoDetection
    \* nothing else is running
    /\ trusted_gcs_ip = "127.0.0.1" /\ ai_enabled = FALSE /\ stats = 0
    /\ fc_sent = 0 /\ sec_log = 0 /\ proc = IdleProc
    /\ seen_nonces = {} /\ nonce_queue = <<>> /\ last_valid_timestamp = 0
    /\ command_history = <<>> /\ rd_stats = 0 /\ rd_now = 0 /\ rd_last = 0
    /\ accepted_at = 0 /\ accept_count = 0 /\ max_accepted = 0
    /\ now = 0 /\ key_manager = 0 /\ last_seen_counter = 0 /\ enc_counter = 0
    /\ emergency_mode = FALSE /\ ticks = 0 /\ revocation_standing = FALSE
    /\ cr_last = 0
    /\ nm_counter = 0 /\ nm_issued = 0
    /\ sealed = 0 /\ ae_last = 0
    /\ de_in = 0 /\ de_out = 0
    /\ inj_state = 0 /\ inj_stats = 0 /\ inj_last = 0
    /\ inf_engine = 0 /\ inf_last = 0
    /\ command_timestamps = 0 /\ dos_stats = 0 /\ intent_history = 0 /\ win_log = 0
    /\ explainable_logger = 0 /\ human_log = 0 /\ decision_log = 0 /\ audit_log = 0 /\ au_now = 0
    /\ decision_engine = 0
    /\ enc_log = 0 /\ dec_log = 0 /\ restarts = 0
    /\ pipeline = 0

\* _detect_dos applied to the metrics record_command computed
DetectDos ==
    /\ ~fd_out.done
    /\ fd_out' =
         [done |-> TRUE,
          is_dos_attack |->
             detect_dos(fd_in.rate, fd_in.burst, fd_in.sustained, fd_in.attack_threshold)[1],
          confidence |->
             detect_dos(fd_in.rate, fd_in.burst, fd_in.sustained, fd_in.attack_threshold)[2]]
    /\ UNCHANGED fd_in

NextFlood ==
    \/ DetectDos /\ UNCHANGED exceptFlood

SpecFlood == InitFlood /\ [][NextFlood]_vars

\* The flood rules of the claim, each with the rules before it excluded.
BurstRule == fd_in.burst >= 80
SustainedRule == ~BurstRule /\ fd_in.sustained >= 70 /\ fd_in.rate >= fd_in.attack_threshold
ElevatedRule ==
    /\ ~BurstRule /\ ~SustainedRule
    /\ fd_in.sustained >= 50 /\ 4 * fd_in.rate >= 3 * fd_in.attack_threshold
MediumBurstRule == ~BurstRule /\ ~SustainedRule /\ ~ElevatedRule /\ fd_in.burst >= 50

\* C30: the flood detector applies its rules in order, first match decisive:
\* burst >= 0.8 gives flood with confidence 0.95; else sustained >= 0.7 and
\* rate >= attack_threshold gives 0.90; else sustained >= 0.5 and rate >=
\* 0.75 * attack_threshold gives 0.75; else burst >= 0.5 gives 0.60;
\* otherwise no flood is reported.
C30_FloodRulesInOrder ==
    fd_out.done =>
        /\ BurstRule => fd_out.is_dos_attack /\ fd_out.confidence = 95
        /\ SustainedRule => fd_out.is_dos_attack /\ fd_out.confidence = 90
        /\ ElevatedRule => fd_out.is_dos_attack /\ fd_out.confidence = 75
        /\ MediumBurstRule => fd_out.is_dos_attack /\ fd_out.confidence = 60
        /\ ~(BurstRule \/ SustainedRule \/ ElevatedRule \/ MediumBurstRule) =>
              ~fd_out.is_dos_attack /\ fd_out.confidence = 0

\* A medium burst together with a sustained flood: the sustained rule decides.
C30_Witness ==
    /\ fd_out.done
    /\ fd_in.burst = 50 /\ fd_in.sustained = 70 /\ fd_in.rate = fd_in.attack_threshold
    /\ fd_out.is_dos_attack /\ fd_out.confidence = 90

(***************************************************************************)
(*   The queues and windows of the detectors                               *)
(*                                                                         *)
(* ReplayDetector.nonce_queue / seen_nonces and command_history,           *)
(* DoSDetector.command_timestamps and IntentFirewall.command_history,      *)
(* each filled by the handler that owns it.  The capacities are scaled     *)
(* down: the code's are 1000 nonces, 100 hashes, 1000 timestamps and 10    *)
(* commands.  None of the three classes writes a log or audit record when  *)
(* it drops an element, so no step adds to win_log.audit_entries.          *)
(***************************************************************************)

\* deque(maxlen=1000) of DoSDetector.command_timestamps, scaled
TimestampRingSize == 2

\* "if len(self.command_history) > 10" of IntentFirewall.analyze, scaled
IntentHistorySize == 2

\* calls of record_command and of analyze in a run
MaxRecorded == TimestampRingSize + 1
MaxAnalyzed == IntentHistorySize + 1

\* command hashes: enough different ones to fill the hash history
WindowHashes == {"h1", "h2", "h3"}

\* command_obj.command_type of the commands analyze sees
IntentCommands == {"WAYPOINT", "RTL"}

\* A history that is appended to and never popped.
AppendNoPop(history, entry, size) == Append(history, entry)

\* IntentFirewall.analyze, lines 296-302: append, then pop(0) when over size
append_pop(history, entry, size) ==
    IF Len(history) + 1 > size THEN Tail(Append(history, entry))
    ELSE Append(history, entry)

\* 1 when a deque(maxlen) append drops its oldest element
deque_drops(q, maxlen) == IF Len(q) >= maxlen THEN 1 ELSE 0

NoDrops == [nonce_window |-> 0, hash_history |-> 0, flood_ring |-> 0, intent_history |-> 0]

exceptWindows == <<proxyVars, cryptoVars, nonceVars, aeadVars, decisionVars,
    injectionVars, inferenceVars, floodVars,
    auditVars,
    engineVars,
    restartVars,
    pipelineVars>>

InitWindows ==
    /\ seen_nonces = {}
    /\ nonce_queue = <<>>
    /\ last_valid_timestamp = 0
    /\ command_history = <<>>
    /\ rd_stats = [total_commands |-> 0, detected_replays |-> 0]
    /\ rd_now = StartTime
    /\ rd_last = NoCheck
    /\ accepted_at = [n \in Nonces |-> 0]
    /\ accept_count = 0
    /\ max_accepted = [ever |-> 0, since_reset |-> 0]
    /\ command_timestamps = <<>>
    /\ dos_stats = [total_commands |-> 0]
    /\ intent_history = <<>>
    /\ win_log = [dropped |-> NoDrops, analyzed |-> 0, audit_entries |-> 0]
    \* nothing else is running
    /\ trusted_gcs_ip = "127.0.0.1" /\ ai_enabled = FALSE /\ stats = 0
    /\ fc_sent = 0 /\ sec_log = 0 /\ proc = IdleProc
    /\ now = 0 /\ key_manager = 0 /\ last_seen_counter = 0 /\ enc_counter = 0
    /\ emergency_mode = FALSE /\ ticks = 0 /\ revocation_standing = FALSE
    /\ cr_last = 0
    /\ nm_counter = 0 /\ nm_issued = 0
    /\ sealed = 0 /\ ae_last = 0
    /\ de_in = 0 /\ de_out = 0
    /\ inj_state = 0 /\ inj_stats = 0 /\ inj_last = 0
    /\ inf_engine = 0 /\ inf_last = 0
    /\ fd_in = 0 /\ fd_out = 0
    /\ explainable_logger = 0 /\ human_log = 0 /\ decision_log = 0 /\ audit_log = 0 /\ au_now = 0
    /\ decision_engine = 0
    /\ enc_log = 0 /\ dec_log = 0 /\ restarts = 0
    /\ pipeline = 0

\* ReplayDetector.check_command on a frame stamped with the current time;
\* _update_tracking drops the oldest nonce and the oldest hash at capacity.
TrackCommand(nonce, command_hash) ==
    /\ CheckCommand(nonce, rd_now, command_hash)
    /\ win_log' =
         [win_log EXCEPT
            !.dropped.nonce_window =
               @ + (IF accept_count' > accept_count
                    THEN deque_drops(nonce_queue, NonceWindowSize) ELSE 0),
            !.dropped.hash_history =
               @ + (IF accept_count' > accept_count
                    THEN deque_drops(command_history, SequenceWindowSize) ELSE 0)]
    /\ UNCHANGED <<command_timestamps, dos_stats, intent_history>>

\* DoSDetector.record_command: the timestamp goes into the ring and the
\* command is counted (the detection computed from the ring is DetectDos).
RecordCommand ==
    /\ dos_stats.total_commands < MaxRecorded
    /\ command_timestamps' = deque_append(command_timestamps, rd_now, TimestampRingSize)
    /\ dos_stats' = [total_commands |-> dos_stats.total_commands + 1]
    /\ win_log' = [win_log EXCEPT
                     !.dropped.flood_ring =
                        @ + deque_drops(command_timestamps, TimestampRingSize)]
    /\ UNCHANGED <<replayVars, intent_history>>

\* IntentFirewall.analyze
AnalyzeIntent(command_type) ==
    /\ win_log.analyzed < MaxAnalyzed
    /\ intent_history' = append_pop(intent_history, command_type, IntentHistorySize)
    /\ win_log' = [win_log EXCEPT
                     !.analyzed = @ + 1,
                     !.dropped.intent_history =
                        @ + (IF Len(intent_history) + 1 > IntentHistorySize THEN 1 ELSE 0)]
    /\ UNCHANGED <<replayVars, command_timestamps, dos_stats>>

NextWindows ==
    \/ \E n \in Nonces, h \in WindowHashes : TrackCommand(n, h) /\ UNCHANGED exceptWindows
    \/ RecordCommand /\ UNCHANGED exceptWindows
    \/ \E c \in IntentCommands : AnalyzeIntent(c) /\ UNCHANGED exceptWindows

SpecWindows == InitWindows /\ [][NextWindows]_vars

\* Every queue and window is within its capacity.
QueuesBounded ==
    /\ Len(nonce_queue) <= NonceWindowSize
    /\ Cardinality(seen_nonces) <= NonceWindowSize
    /\ Len(command_history) <= SequenceWindowSize
    /\ Len(command_timestamps) <= TimestampRingSize
    /\ Len(intent_history) <= IntentHistorySize

\* Elements dropped so far because a bound was reached.
DroppedElements ==
    win_log.dropped.nonce_window + win_log.dropped.hash_history
      + win_log.dropped.flood_ring + win_log.dropped.intent_history

\* C28 as stated: every queue or window kept by the gateway is bounded, and
\* whenever an element is dropped because a bound was reached an audit entry
\* is written.
C28_BoundedAndDropsAudited ==
    /\ QueuesBounded
    /\ win_log.audit_entries >= DroppedElements

\* C28, amended: every queue or window kept by the gateway is bounded; at
\* capacity the oldest element is dropped, and no audit entry is written
\* for it.
C28_BoundedAndDropsSilent ==
    /\ QueuesBounded
    /\ win_log.audit_entries = 0
    /\ win_log.dropped.flood_ring = dos_stats.total_commands - Len(command_timestamps)
    /\ win_log.dropped.intent_history = win_log.analyzed - Len(intent_history)
    /\ win_log.dropped.nonce_window = accept_count - Len(nonce_queue)

\* Each of the four queues is full and has dropped an element.
C28_Witness ==
    /\ win_log.dropped.nonce_window > 0 /\ Len(nonce_queue) = NonceWindowSize
    /\ win_log.dropped.hash_history > 0 /\ Len(command_history) = SequenceWindowSize
    /\ win_log.dropped.flood_ring > 0 /\ Len(command_timestamps) = TimestampRingSize
    /\ win_log.dropped.intent_history > 0 /\ Len(intent_history) = IntentHistorySize
    /\ win_log.audit_entries = 0

(***************************************************************************)
(*   ExplainableLogger: the three audit files                              *)
(*                                                                         *)
(* decisions_explained.txt, decision_log.jsonl and audit_trail.jsonl are   *)
(* sequences of what was written to them; every write of the class opens   *)
(* its file in append mode.                                                *)
(***************************************************************************)

\* calls of log_decision in a run
MaxLogged == 3

\* ExplainableLogger objects constructed over the same log directory
MaxLoggers == 2

\* latest value of int(time.time())
MaxAuditTime == 2

\* decision_result.decision.value of the logged decisions
LoggedDecisions == {"ACCEPT", "RTL"}

IsPrefixOf(a, b) == Len(a) <= Len(b) /\ SubSeq(b, 1, Len(a)) = a

\* _write_session_header: the session start marker of the human log
session_header(session_id) ==
    [kind |-> "header", session_id |-> session_id, command_id |-> 0, decision |-> "none"]

\* "[Command #n] timestamp" and the explanation text below it
human_block(logger, decision) ==
    [kind |-> "block", session_id |-> logger.session_id,
     command_id |-> logger.command_counter, decision |-> decision]

\* decision_record of log_decision
decision_record(logger, decision, crypto_valid) ==
    [session_id |-> logger.session_id, command_id |-> logger.command_counter,
     layers |-> [crypto |-> [valid |-> crypto_valid]], decision |-> decision]

\* audit_record of log_decision
audit_record(logger, decision, crypto_valid) ==
    [session_id |-> logger.session_id, command_id |-> logger.command_counter,
     decision |-> decision, crypto_valid |-> crypto_valid]

\* A log_decision that leaves the audit trail out.
SkipAuditTrail(logger, files, decision, crypto_valid) ==
    [logger |-> [logger EXCEPT !.command_counter = @ + 1],
     human |-> Append(files.human,
                      human_block([logger EXCEPT !.command_counter = @ + 1], decision)),
     decision |-> Append(files.decision,
                         decision_record([logger EXCEPT !.command_counter = @ + 1],
                                         decision, crypto_valid)),
     audit |-> files.audit]

\* ExplainableLogger.log_decision: the counter is incremented first, and the
\* three files get one entry each, all with the incremented counter.
log_decision(logger, files, decision, crypto_valid) ==
    [logger |-> [logger EXCEPT !.command_counter = @ + 1],
     human |-> Append(files.human,
                      human_block([logger EXCEPT !.command_counter = @ + 1], decision)),
     decision |-> Append(files.decision,
                         decision_record([logger EXCEPT !.command_counter = @ + 1],
                                         decision, crypto_valid)),
     audit |-> Append(files.audit,
                      audit_record([logger EXCEPT !.command_counter = @ + 1],
                                   decision, crypto_valid))]

\* headers in the human log = loggers constructed so far
LoggersConstructed == Cardinality({i \in 1 .. Len(human_log) : human_log[i].kind = "header"})

exceptAudit == <<proxyVars, replayVars, cryptoVars, nonceVars, aeadVars, decisionVars,
    injectionVars, inferenceVars, floodVars, windowVars,
    engineVars,
    restartVars,
    pipelineVars>>

\* ExplainableLogger(log_dir) on an empty log directory at time 1
InitAudit ==
    /\ au_now = 1
    /\ explainable_logger = [session_id |-> 1, command_counter |-> 0]
    /\ human_log = <<session_header(1)>>
    /\ decision_log = <<>>
    /\ audit_log = <<>>
    \* nothing else is running
    /\ trusted_gcs_ip = "127.0.0.1" /\ ai_enabled = FALSE /\ stats = 0
    /\ fc_sent = 0 /\ sec_log = 0 /\ proc = IdleProc
    /\ seen_nonces = {} /\ nonce_queue = <<>> /\ last_valid_timestamp = 0
    /\ command_history = <<>> /\ rd_stats = 0 /\ rd_now = 0 /\ rd_last = 0
    /\ accepted_at = 0 /\ accept_count = 0 /\ max_accepted = 0
    /\ now = 0 /\ key_manager = 0 /\ last_seen_counter = 0 /\ enc_counter = 0
    /\ emergency_mode = FALSE /\ ticks = 0 /\ revocation_standing = FALSE
    /\ cr_last = 0
    /\ nm_counter = 0 /\ nm_issued = 0
    /\ sealed = 0 /\ ae_last = 0
    /\ de_in = 0 /\ de_out = 0
    /\ inj_state = 0 /\ inj_stats = 0 /\ inj_last = 0
    /\ inf_engine = 0 /\ inf_last = 0
    /\ fd_in = 0 /\ fd_out = 0
    /\ command_timestamps = 0 /\ dos_stats = 0 /\ intent_history = 0 /\ win_log = 0
    /\ decision_engine = 0
    /\ enc_log = 0 /\ dec_log = 0 /\ restarts = 0
    /\ pipeline = 0

\* log_decision(command_obj, decision_result, ..., crypto_valid)
LogDecision(decision, crypto_valid) ==
    /\ Len(audit_log) < MaxLogged
    /\ explainable_logger' =
         log_decision(explainable_logger,
                      [human |-> human_log, decision |-> decision_log, audit |-> audit_log],
                      decision, crypto_valid).logger
    /\ human_log' =
         log_decision(explainable_logger,
                      [human |-> human_log, decision |-> decision_log, audit |-> audit_log],
                      decision, crypto_valid).human
    /\ decision_log' =
         log_decision(explainable_logger,
                      [human |-> human_log, decision |-> decision_log, audit |-> audit_log],
                      decision, crypto_valid).decision
    /\ audit_log' =
         log_decision(explainable_logger,
                      [human |-> human_log, decision |-> decision_log, audit |-> audit_log],
                      decision, crypto_valid).audit
    /\ UNCHANGED au_now

\* ExplainableLogger.__init__ over the same log directory at time t: a new
\* session id from the clock, the counter at 0, a header in the human log.
NewLogger(t) ==
    /\ LoggersConstructed < MaxLoggers
    /\ au_now' = t
    /\ explainable_logger' = [session_id |-> t, command_counter |-> 0]
    /\ human_log' = Append(human_log, session_header(t))
    /\ UNCHANGED <<decision_log, audit_log>>

NextAudit ==
    \/ \E d \in LoggedDecisions, c \in BOOLEAN : LogDecision(d, c) /\ UNCHANGED exceptAudit
    \/ \E t \in au_now .. MaxAuditTime : NewLogger(t) /\ UNCHANGED exceptAudit

SpecAudit == InitAudit /\ [][NextAudit]_vars

\* A step in which a decision reaches any of the three files.
DecisionLogged ==
    \/ Len(decision_log') # Len(decision_log)
    \/ Len(audit_log') # Len(audit_log)
    \/ /\ Len(human_log') # Len(human_log)
       /\ human_log'[Len(human_log')].kind = "block"

\* C29: each logged decision appends exactly one record to each of the three
\* audit sinks, all three with the same command id; the command id is one
\* more than that of the logger's previous decision; and no record written
\* before is changed or removed.
C29_OneRecordPerSinkSameId ==
    [][/\ IsPrefixOf(human_log, human_log')
       /\ IsPrefixOf(decision_log, decision_log')
       /\ IsPrefixOf(audit_log, audit_log')
       /\ DecisionLogged =>
            /\ Len(human_log') = Len(human_log) + 1
            /\ Len(decision_log') = Len(decision_log) + 1
            /\ Len(audit_log') = Len(audit_log) + 1
            /\ human_log'[Len(human_log')].kind = "block"
            /\ human_log'[Len(human_log')].command_id = explainable_logger.command_counter + 1
            /\ decision_log'[Len(decision_log')].command_id = explainable_logger.command_counter + 1
            /\ audit_log'[Len(audit_log')].command_id = explainable_logger.command_counter + 1
            /\ explainable_logger'.command_counter = explainable_logger.command_counter + 1
            /\ explainable_logger'.session_id = explainable_logger.session_id]_vars

\* Two decisions logged by one logger after a decision of an earlier logger.
C29_Witness ==
    /\ Len(audit_log) = 3 /\ Len(decision_log) = 3
    /\ LoggersConstructed = 2
    /\ audit_log[1].command_id = 1
    /\ audit_log[2].command_id = 1
    /\ audit_log[3].command_id = 2
    /\ decision_log[3].command_id = 2
    /\ human_log[Len(human_log)].command_id = 2
    /\ explainable_logger.command_counter = 2

(***************************************************************************)
(*            Claims on sessions, restarts and the crypto gate             *)
(***************************************************************************)
\* A step in which encrypt_payload or decrypt_payload got the session key and
\* used it: the call that counts as a command of the session.
SessionOp ==
    /\ now' = now
    /\ \/ cr_last'.op \in {"encrypt_payload", "decrypt_payload"} /\ cr_last'.ok
       \/ cr_last'.op = "crypto_check" /\ cr_last'.decrypt_called /\ cr_last'.err = ""

\* A step that is a call of rotate_session_key by the operator.
RotationStep == now' = now /\ cr_last'.op = "rotate_session_key" /\ cr_last' # cr_last

\* The command count of the session the next state is in, as it stood before
\* the step: 0 when the step itself began the session.
count_in_session ==
    IF key_manager'.metadata.session_id = key_manager.metadata.session_id
    THEN key_manager.metadata.command_count ELSE 0

\* C31: rotate_session_key starts a new session with a session id and key
\* different from the previous ones, whose command_count is 0 right after the
\* rotation and equals k after the k-th later encrypt or decrypt operation
\* (each such operation adds exactly one to the session's count).
C31_CommandCountRestartsAtRotation ==
    [][/\ RotationStep =>
            /\ key_manager'.metadata.session_id # key_manager.metadata.session_id
            /\ key_manager'.session_key # key_manager.session_key
            /\ key_manager'.metadata.command_count = 0
       /\ SessionOp =>
            key_manager'.metadata.command_count = count_in_session + 1]_vars

(***************************************************************************)
(*        RiskProportionalDecisionEngine.__init__ and its weights          *)
(*                                                                         *)
(* A configuration is a dict, kept here as two dicts by the type of the    *)
(* value: the weight keys (hundredths) and the flags.                      *)
(***************************************************************************)
WeightKeys == {"weight_crypto", "weight_intent", "weight_behavior",
               "weight_trajectory", "weight_ml_intent"}

\* values a configuration gives a weight: 0.05 or 0.40
WeightSettings == {5, 40}

\* every dict with keys from keys and values from values
Dicts(keys, values) == UNION {[S -> values] : S \in SUBSET keys}

\* The configurations an engine is constructed with; the one with no key is
\* RiskProportionalDecisionEngine() and config = {}.
EngineConfigs ==
    [weights : Dicts(WeightKeys, WeightSettings), flags : Dicts({"use_ml_intent"}, BOOLEAN)]

NoConfig == [weights |-> <<>>, flags |-> <<>>]

\* dict.get(key, default)
config_get(config, key, default) == IF key \in DOMAIN config THEN config[key] ELSE default

\* RiskProportionalDecisionEngine.__init__, lines 99-109
engine_weights(config) ==
    [crypto |-> config_get(config.weights, "weight_crypto", weight_crypto),
     intent |-> config_get(config.weights, "weight_intent", weight_intent),
     behavior |-> config_get(config.weights, "weight_behavior", weight_behavior),
     trajectory |-> config_get(config.weights, "weight_trajectory", weight_trajectory),
     ml_intent |-> config_get(config.weights, "weight_ml_intent", weight_ml_intent)]

engine_init(config) ==
    [weights |-> engine_weights(config),
     use_ml_intent |-> config_get(config.flags, "use_ml_intent", TRUE)]

weight_sum(w) == w.crypto + w.intent + w.behavior + w.trajectory + w.ml_intent

exceptEngine == <<proxyVars, replayVars, cryptoVars, nonceVars, aeadVars, decisionVars,
    injectionVars, inferenceVars, floodVars, windowVars, auditVars,
    restartVars,
    pipelineVars>>

\* the engine of IntegratedSecurityPipeline and AEGISProxy: no configuration
InitEngine ==
    /\ decision_engine = engine_init(NoConfig)
    \* nothing else is running
    /\ trusted_gcs_ip = "127.0.0.1" /\ ai_enabled = FALSE /\ stats = 0
    /\ fc_sent = 0 /\ sec_log = 0 /\ proc = IdleProc
    /\ seen_nonces = {} /\ nonce_queue = <<>> /\ last_valid_timestamp = 0
    /\ command_history = <<>> /\ rd_stats = 0 /\ rd_now = 0 /\ rd_last = 0
    /\ accepted_at = 0 /\ accept_count = 0 /\ max_accepted = 0
    /\ now = 0 /\ key_manager = 0 /\ last_seen_counter = 0 /\ enc_counter = 0
    /\ emergency_mode = FALSE /\ ticks = 0 /\ revocation_standing = FALSE
    /\ cr_last = 0
    /\ nm_counter = 0 /\ nm_issued = 0
    /\ sealed = 0 /\ ae_last = 0
    /\ de_in = 0 /\ de_out = 0
    /\ inj_state = 0 /\ inj_stats = 0 /\ inj_last = 0
    /\ inf_engine = 0 /\ inf_last = 0
    /\ fd_in = 0 /\ fd_out = 0
    /\ command_timestamps = 0 /\ dos_stats = 0 /\ intent_history = 0 /\ win_log = 0
    /\ explainable_logger = 0 /\ human_log = 0 /\ decision_log = 0 /\ audit_log = 0 /\ au_now = 0
    /\ enc_log = 0 /\ dec_log = 0 /\ restarts = 0
    /\ pipeline = 0

\* RiskProportionalDecisionEngine(config): the engine is constructed anew
ConstructEngine(config) == decision_engine' = engine_init(config)

NextEngine == \E config \in EngineConfigs : ConstructEngine(config) /\ UNCHANGED exceptEngine

SpecEngine == InitEngine /\ [][NextEngine]_vars

\* C32: the five risk weights of every constructed engine sum to 1.0, also
\* when the engine was constructed with configuration overrides.
C32_WeightsSumToOne == weight_sum(decision_engine.weights) = 100

\* The message process_message has just handled was blocked or dropped: by
\* the authorization, or by an intent analysis that returned allowed = False.
MessageRefused ==
    \/ proc'.cur.verdict \in {"block", "drop", "ai_block"}
    \/ proc'.cur.intent = "not_allowed"
    \/ proc'.sender_type # "GCS"

\* C33: a datagram that parses into several MAVLink messages is forwarded to
\* the flight controller only if every one of its messages was authorized and
\* approved; once one message of it is blocked or dropped, nothing of the
\* datagram is forwarded, whatever the messages after it are.
C33_AllOrNothingForwarding ==
    [][/\ fc_sent' # fc_sent =>
            /\ fc_sent' = fc_sent + 1
            /\ proc.pc = "loop" /\ proc'.pc = "done"
            /\ proc.sender_type = "GCS"
            /\ proc.n_msgs >= 1 /\ proc.n_approved = proc.n_msgs
       /\ (proc.pc = "loop" /\ proc'.pc = "loop" /\ MessageRefused) => ~proc'.all_forwarded
       /\ (proc.pc = "loop" /\ ~proc.all_forwarded) =>
            /\ fc_sent' = fc_sent
            /\ ~proc'.all_forwarded
            /\ proc'.sent = 0]_vars

\* After a datagram of two approved messages was forwarded, a datagram whose
\* first message was approved and whose second was blocked by the intent
\* analysis has been processed and not forwarded.
C33_Witness ==
    /\ proc.pc = "done" /\ proc.sender_type = "GCS"
    /\ proc.n_msgs = 2 /\ proc.n_approved = 1
    /\ proc.cur.verdict = "ai_block"
    /\ proc.sent = 0 /\ fc_sent = 1
    /\ stats.total_received = 2 /\ stats.total_blocked = 1

\* IntegratedSecurityPipeline.process_encrypted_command, lines 183-194: the
\* decision built when crypto_check returned False; no detector and no
\* decision engine is consulted for it.
crypto_failed_decision ==
    [decided |-> TRUE, severity |-> "CRITICAL", confidence |-> 100, decision |-> "RTL"]

\* C34: a command that fails cryptographic validation never receives the
\* decision ACCEPT or CONSTRAIN: the decision engine called with
\* crypto_valid = False returns HOLD or RTL, and the integrated pipeline
\* returns RTL.
C34_CryptoInvalidHeldOrRtl ==
    /\ (de_out.decided /\ ~de_in.crypto_valid) =>
          /\ de_out.decision \in {"HOLD", "RTL"}
          /\ de_out.severity \in {"HIGH", "CRITICAL"}
    /\ crypto_failed_decision.decision \in {"HOLD", "RTL"}

\* The engine has decided HOLD on a command that failed crypto validation and
\* that no other layer found anything wrong with: its weighted risk of 0.35
\* alone would have been accepted.
C34_Witness ==
    /\ de_out.decided /\ ~de_in.crypto_valid
    /\ de_in.intent_match /\ de_in.intent_confidence = 90
    /\ de_in.behavior_score = 0 /\ de_in.trajectory_risk = 0
    /\ de_in.anomaly_level = "LOW" /\ ~de_in.geofence_violation
    /\ ~de_in.ml.present
    /\ weighted_risk(de_in) = 3500
    /\ de_out.decision = "HOLD"

(***************************************************************************)
(*   The crypto layer over process restarts                                *)
(*                                                                         *)
(* A restart runs the module-level code again: key_manager = KeyManager(), *)
(* nonce_mgr = NonceManager(), last_seen_counter = 0 and a new CryptoGate. *)
(* What survives is on disk: session_key.bin holds the session key from    *)
(* _derive_session_key until _destroy_session_key removes it, and          *)
(* key_metadata.json holds the metadata as last saved (every public call   *)
(* that changes the metadata saves it).  enc_log and dec_log record what   *)
(* was sealed and what was accepted, with the process life it happened in. *)
(***************************************************************************)
MaxRestarts == 1

\* KeyManager.__init__ with _load_or_initialize_keys at time t, km being the
\* manager of the previous life: the session key and the metadata are loaded
\* when session_key.bin exists, and a new session key is derived when only
\* the root key exists.  _command_counter and _last_rotation_check start anew.
load_or_initialize_keys(km, t) ==
    IF km.session_key # NoKey
    THEN [km EXCEPT !.old_metadata = NoOldMetadata, !.command_counter = 0,
                    !.last_rotation_check = t]
    ELSE derive_session_key(
             [km EXCEPT !.old_metadata = NoOldMetadata, !.command_counter = 0,
                        !.last_rotation_check = t], t)

\* the entry of enc_log or dec_log for the frame of the call just made
logged_frame(frame, life) == [key |-> frame.key, counter |-> frame.counter, life |-> life]

exceptRestart == <<proxyVars, replayVars, nonceVars, aeadVars, decisionVars,
    injectionVars, inferenceVars, floodVars, windowVars, auditVars, engineVars,
    pipelineVars>>

\* the first start, as InitCrypto: no key files, a root key is provisioned
InitRestart ==
    /\ now = StartTime
    /\ key_manager = derive_session_key(
           [session_key |-> NoKey, sessions_derived |-> 0, metadata |-> NoMetadata,
            old_metadata |-> NoOldMetadata, command_counter |-> 0,
            last_rotation_check |-> StartTime], StartTime)
    /\ last_seen_counter = 0
    /\ enc_counter = 0
    /\ emergency_mode = FALSE
    /\ ticks = 0
    /\ revocation_standing = FALSE
    /\ cr_last = CryptoOp("init", NoFrame, TRUE, "", FALSE)
    /\ enc_log = {}
    /\ dec_log = {}
    /\ restarts = 0
    \* nothing else is running
    /\ trusted_gcs_ip = "127.0.0.1" /\ ai_enabled = FALSE /\ stats = 0
    /\ fc_sent = 0 /\ sec_log = 0 /\ proc = IdleProc
    /\ seen_nonces = {} /\ nonce_queue = <<>> /\ last_valid_timestamp = 0
    /\ command_history = <<>> /\ rd_stats = 0 /\ rd_now = 0 /\ rd_last = 0
    /\ accepted_at = 0 /\ accept_count = 0 /\ max_accepted = 0
    /\ nm_counter = 0 /\ nm_issued = 0
    /\ sealed = 0 /\ ae_last = 0
    /\ de_in = 0 /\ de_out = 0
    /\ inj_state = 0 /\ inj_stats = 0 /\ inj_last = 0
    /\ inf_engine = 0 /\ inf_last = 0
    /\ fd_in = 0 /\ fd_out = 0
    /\ command_timestamps = 0 /\ dos_stats = 0 /\ intent_history = 0 /\ win_log = 0
    /\ explainable_logger = 0 /\ human_log = 0 /\ decision_log = 0 /\ audit_log = 0 /\ au_now = 0
    /\ decision_engine = 0
    /\ pipeline = 0

EncryptLogged ==
    /\ EncryptPayload
    /\ enc_log' = IF cr_last'.ok
                  THEN enc_log \cup {logged_frame(cr_last'.frame, restarts)}
                  ELSE enc_log
    /\ UNCHANGED <<dec_log, restarts>>

DecryptLogged(frame) ==
    /\ DecryptPayload(frame)
    /\ dec_log' = IF cr_last'.ok
                  THEN dec_log \cup {logged_frame(frame, restarts)}
                  ELSE dec_log
    /\ UNCHANGED <<enc_log, restarts>>

\* The process is stopped and started again.
ProcessRestart ==
    /\ restarts < MaxRestarts
    /\ restarts' = restarts + 1
    /\ key_manager' = load_or_initialize_keys(key_manager, now)
    /\ key_manager'.sessions_derived <= MaxSessions
    /\ last_seen_counter' = 0
    /\ enc_counter' = 0
    /\ emergency_mode' = FALSE
    /\ revocation_standing' = FALSE
    /\ cr_last' = CryptoOp("restart", NoFrame, TRUE, "", FALSE)
    /\ UNCHANGED <<now, ticks, enc_log, dec_log>>

NextRestart ==
    \/ EncryptLogged /\ UNCHANGED exceptRestart
    \/ \E f \in BareFrames(key_manager) : DecryptLogged(f) /\ UNCHANGED exceptRestart
    \/ RotateSessionKey /\ UNCHANGED restartVars /\ UNCHANGED exceptRestart
    \/ RevokeSessionKey /\ UNCHANGED restartVars /\ UNCHANGED exceptRestart
    \/ ProcessRestart /\ UNCHANGED exceptRestart

SpecRestart == InitRestart /\ [][NextRestart]_vars

\* C35: no (session key, nonce) pair is ever used for two encryptions, over
\* any sequence of encrypt operations, rotations and process restarts.
C35_NoKeyNonceReuse ==
    \A a \in enc_log : \A b \in enc_log :
        (a.key = b.key /\ a.counter = b.counter) => a.life = b.life

\* C36: a frame that was successfully decrypted before a process restart is
\* not accepted again after the restart while the same session key is still
\* the active key.
C36_NoReplayAcrossRestart ==
    [][(cr_last'.op = "decrypt_payload" /\ cr_last'.ok /\ dec_log' # dec_log) =>
          \A d \in dec_log :
              ~(/\ d.key = cr_last'.frame.key
                /\ d.counter = cr_last'.frame.counter
                /\ d.life < restarts
                /\ key_manager'.session_key = d.key)]_vars

\* C38: after the session key has been revoked, a restart of the process
\* does not yield an active session key: the key manager comes up with no
\* usable session key.
C38_RevocationSurvivesRestart ==
    [][(restarts' = restarts + 1 /\ Revoked(key_manager)) =>
          /\ get_active_session_key(key_manager', now').err # ""
          /\ ~(key_manager'.session_key # NoKey /\ key_manager'.metadata.state = "active")]_vars

\* A step in which crypto_check returned (False, None) for cr_last'.frame.
GateRejects == GateStep /\ ~cr_last'.ok /\ cr_last' # cr_last

\* C37: a frame that the crypto gate rejects (replay, tag mismatch, key
\* failure, or a timestamp more than 30 s off) leaves the last-seen replay
\* counter and the command count of the session unchanged.
C37_RejectedFrameLeavesCounters ==
    [][GateRejects =>
          /\ last_seen_counter' = last_seen_counter
          /\ key_manager'.metadata.session_id = key_manager.metadata.session_id
                => key_manager'.metadata.command_count = key_manager.metadata.command_count]_vars

(***************************************************************************)
(*   IntegratedSecurityPipeline.process_encrypted_command at its entry     *)
(*                                                                         *)
(* The crypto gate's verdict on the frame is an input (the gate is the     *)
(* subject of SpecCrypto), and so is the verdict of the layers that run    *)
(* after the flood detector; what is followed here is which frames reach   *)
(* DoSDetector.record_command.                                             *)
(***************************************************************************)
\* frames handed to process_encrypted_command in a run
MaxFrames == 4

\* seconds between two frames
FrameGaps == {0, 1, 2}

\* DoSDetector._calculate_burst_score, lines 148-151: the commands of the
\* last second that are in the ring
burst_commands(timestamps, t) ==
    Cardinality({i \in 1 .. Len(timestamps) : timestamps[i] >= t - 1})

NoPipelineResult == [crypto_valid |-> TRUE, dos_metrics |-> FALSE, burst_rate |-> 0, decision |-> "none"]

exceptPipeline == <<proxyVars, replayVars, cryptoVars, nonceVars, aeadVars, decisionVars,
    injectionVars, inferenceVars, floodVars, auditVars, engineVars, restartVars>>

\* IntegratedSecurityPipeline.__init__ with DoSDetector.__init__
InitPipeline ==
    /\ pipeline = [total_commands |-> 0, accepted_commands |-> 0, rejected_commands |-> 0,
                   now |-> 0, last |-> NoPipelineResult]
    /\ command_timestamps = <<>>
    /\ dos_stats = [total_commands |-> 0]
    /\ intent_history = 0
    /\ win_log = 0
    \* nothing else is running
    /\ trusted_gcs_ip = "127.0.0.1" /\ ai_enabled = FALSE /\ stats = 0
    /\ fc_sent = 0 /\ sec_log = 0 /\ proc = IdleProc
    /\ seen_nonces = {} /\ nonce_queue = <<>> /\ last_valid_timestamp = 0
    /\ command_history = <<>> /\ rd_stats = 0 /\ rd_now = 0 /\ rd_last = 0
    /\ accepted_at = 0 /\ accept_count = 0 /\ max_accepted = 0
    /\ now = 0 /\ key_manager = 0 /\ last_seen_counter = 0 /\ enc_counter = 0
    /\ emergency_mode = FALSE /\ ticks = 0 /\ revocation_standing = FALSE
    /\ cr_last = 0
    /\ nm_counter = 0 /\ nm_issued = 0
    /\ sealed = 0 /\ ae_last = 0
    /\ de_in = 0 /\ de_out = 0
    /\ inj_state = 0 /\ inj_stats = 0 /\ inj_last = 0
    /\ inf_engine = 0 /\ inf_last = 0
    /\ fd_in = 0 /\ fd_out = 0
    /\ explainable_logger = 0 /\ human_log = 0 /\ decision_log = 0 /\ audit_log = 0 /\ au_now = 0
    /\ decision_engine = 0
    /\ enc_log = 0 /\ dec_log = 0 /\ restarts = 0

\* process_encrypted_command on a frame crypto_check rejects, lines 181-214:
\* counted, rejected with RTL, and returned with dos_metrics = None.
RejectInvalidFrame(gap) ==
    /\ pipeline.total_commands < MaxFrames
    /\ pipeline' = [pipeline EXCEPT
                      !.total_commands = @ + 1,
                      !.rejected_commands = @ + 1,
                      !.now = @ + gap,
                      !.last = [crypto_valid |-> FALSE, dos_metrics |-> FALSE,
                                burst_rate |-> 0, decision |-> "RTL"]]
    /\ UNCHANGED <<command_timestamps, dos_stats, intent_history, win_log>>

\* process_encrypted_command on a frame crypto_check accepts: the flood
\* detector records it (lines 216-220), the later layers decide.
ProcessValidFrame(gap, decision) ==
    /\ pipeline.total_commands < MaxFrames
    /\ command_timestamps' =
         deque_append(command_timestamps, pipeline.now + gap, TimestampRingSize)
    /\ dos_stats' = [total_commands |-> dos_stats.total_commands + 1]
    /\ pipeline' = [pipeline EXCEPT
                      !.total_commands = @ + 1,
                      !.accepted_commands = @ + (IF decision = "ACCEPT" THEN 1 ELSE 0),
                      !.rejected_commands = @ + (IF decision = "REJECT" THEN 1 ELSE 0),
                      !.now = @ + gap,
                      !.last = [crypto_valid |-> TRUE, dos_metrics |-> TRUE,
                                burst_rate |-> burst_commands(command_timestamps',
                                                              pipeline.now + gap),
                                decision |-> decision]]
    /\ UNCHANGED <<intent_history, win_log>>

NextPipeline ==
    \/ \E gap \in FrameGaps : RejectInvalidFrame(gap) /\ UNCHANGED exceptPipeline
    \/ \E gap \in FrameGaps, decision \in {"ACCEPT", "REJECT", "CONSTRAIN"} :
          ProcessValidFrame(gap, decision) /\ UNCHANGED exceptPipeline

SpecPipeline == InitPipeline /\ [][NextPipeline]_vars

\* C39: every frame the integrated pipeline receives is recorded in the
\* flood detector's window, frames that fail cryptographic validation
\* included, and the flood metrics are computed for it.
C39_EveryFrameRecorded ==
    /\ dos_stats.total_commands = pipeline.total_commands
    /\ pipeline.total_commands > 0 => pipeline.last.dos_metrics

(***************************************************************************)
(*      KeyManager.get_active_session_key called at least every 60 s       *)
(*                                                                         *)
(* The key manager is started on the keys an earlier process left          *)
(* (InitKeys) and is then asked for the session key again and again, two   *)
(* calls never more than ROTATION_CHECK_INTERVAL apart; nothing revokes    *)
(* the key.                                                                *)
(***************************************************************************)
\* calls of get_active_session_key in a run
MaxCalls == 34

\* seconds between two calls: none is longer than 60 s
CallGaps == {ROTATION_CHECK_INTERVAL \div 2, ROTATION_CHECK_INTERVAL}

\* the call's outcome: the manager afterwards, and the key or the ValueError
key_call_returns(r) ==
    /\ key_manager' = r.km
    /\ cr_last' = CryptoOp("get_active_session_key", NoFrame, r.err = "", r.err, FALSE)

\* gap seconds after the last call, get_active_session_key is called again.
PollSessionKey(gap) ==
    /\ ticks < MaxCalls
    /\ ticks' = ticks + 1
    /\ now' = now + gap
    /\ key_call_returns(get_active_session_key(key_manager, now + gap))
    /\ key_manager'.sessions_derived <= MaxSessions
    /\ UNCHANGED <<last_seen_counter, enc_counter, emergency_mode, revocation_standing>>

NextExpiry == \E gap \in CallGaps : PollSessionKey(gap) /\ UNCHANGED exceptCrypto

SpecExpiry == InitKeys /\ [][NextExpiry]_vars

\* C40: when get_active_session_key is called at least once every 60 seconds
\* and the key is never revoked, no call fails with "Session key expired":
\* the time-based rotation replaces the key before its expiry.
C40_PolledKeyNeverExpires == cr_last.err # ErrExpired

=============================================================================
